---- MODULE Spec2Model ----
(***************************************************************************)
(* A model of the streaming DEFLATE decompressor of stdex                  *)
(* (src/io/deflate/mod.rs, src/io/deflate/ring_buffer.rs, src/huffman.rs,  *)
(* src/io/bitio/bitreader_lsb.rs).                                         *)
(*                                                                         *)
(* The decoder is a record of the four fields of DeflateDecompressor; the  *)
(* byte source is a cursor over the sequence `source`.  Every function of  *)
(* the code is an operator that returns the value together with the state  *)
(* it leaves behind, so that an early return by `?` keeps exactly the      *)
(* side effects the code had performed when it returned.                   *)
(*                                                                         *)
(* A behaviour is one stream and one caller: New constructs the decoder    *)
(* over `source`, then the caller calls read and make_available with       *)
(* requests of any size.  `expect` holds the bytes the stream stands for,  *)
(* `out` the bytes read has handed to the caller, `last` the latest call   *)
(* and its result.                                                         *)
(*                                                                         *)
(* The parts are also run on their own: RingSpec is the window under       *)
(* writes and self-copies, BlockSpec one block from its header on,         *)
(* TableSpec one dynamic block with the code lengths it transmits,         *)
(* PairSpec one block with one length/distance pair, CodeSpec the          *)
(* construction of codes and trees from arrays of lengths and the decoding *)
(* of a code, and BitSpec the bit reader over a byte source.               *)
(***************************************************************************)
EXTENDS Integers, Sequences, FiniteSets, TLC

VARIABLES source, expect, bitreader, state, window, available, out, last, failed, direct

vars == <<source, expect, bitreader, state, window, available, out, last, failed, direct>>

(***************************************************************************)
(* Bounds of the model.  Capacity stands for the 32768-byte window of      *)
(* DeflateDecompressor::new; every use of 32768 in the code is a use of    *)
(* Capacity here, and io_copy's 16384-byte chunk is half of it.            *)
(***************************************************************************)
Capacity == 4

MaxBuf == 9

Min(a, b) == IF a <= b THEN a ELSE b

RECURSIVE Pow2(_)
Pow2(n) == IF n = 0 THEN 1 ELSE 2 * Pow2(n - 1)

RECURSIVE BitAnd(_, _)
BitAnd(a, b) ==
    IF a = 0 \/ b = 0 THEN 0
    ELSE (IF a % 2 = 1 /\ b % 2 = 1 THEN 1 ELSE 0) + 2 * BitAnd(a \div 2, b \div 2)

RECURSIVE BitOr(_, _)
BitOr(a, b) ==
    IF a = 0 THEN b
    ELSE IF b = 0 THEN a
    ELSE (IF a % 2 = 1 \/ b % 2 = 1 THEN 1 ELSE 0) + 2 * BitOr(a \div 2, b \div 2)

\* a << n on u32.  Every shift of the decoder stays below 2^31 (a mask of at most
\* 9 bits, a field of at most 13 bits, a code length of at most 15 above bit 27),
\* so no bit is shifted out.
Shl32(a, n) == a * Pow2(n)

NoErr == ""

(***************************************************************************)
(* The byte source: std::io::Cursor over `source`.  `reader` is the        *)
(* cursor's position.  A read_exact that meets the end of the data fails   *)
(* with UnexpectedEof and leaves the cursor at the end.                    *)
(***************************************************************************)
read_exact(br, n) ==
    IF br.reader + n <= Len(source)
    THEN [err |-> NoErr,
          br  |-> [br EXCEPT !.reader = br.reader + n],
          val |-> SubSeq(source, br.reader + 1, br.reader + n)]
    ELSE [err |-> "UnexpectedEof",
          br  |-> [br EXCEPT !.reader = Len(source)],
          val |-> <<>>]

read_u8(br) ==
    LET item(r) == IF r.err # NoErr THEN [err |-> r.err, br |-> r.br, val |-> 0]
                   ELSE [err |-> NoErr, br |-> r.br, val |-> r.val[1]]
    IN  item(read_exact(br, 1))

read_u16_le(br) ==
    LET item(r) == IF r.err # NoErr THEN [err |-> r.err, br |-> r.br, val |-> 0]
                   ELSE [err |-> NoErr, br |-> r.br, val |-> r.val[1] + 256 * r.val[2]]
    IN  item(read_exact(br, 2))

(***************************************************************************)
(* BitReaderLSB                                                            *)
(***************************************************************************)
BitReaderLSB_new == [reader |-> 0, buffer |-> 0, mask |-> 1]

advance_mask(mask) ==
    LET m == Shl32(mask, 1) IN IF m = 256 THEN 1 ELSE m

read_bit(br) ==
    LET test(r) ==
            IF r.err # NoErr THEN [err |-> r.err, br |-> r.br, val |-> 0]
            ELSE [err |-> NoErr,
                  br  |-> [r.br EXCEPT !.buffer = r.val, !.mask = advance_mask(r.br.mask)],
                  val |-> IF BitAnd(r.br.mask, r.val) = 0 THEN 0 ELSE 1]
    IN  test(IF br.mask = 1 THEN read_u8(br)
             ELSE [err |-> NoErr, br |-> br, val |-> br.buffer])

\* read_bits_32 without its first loop
read_bits_32_buffered_none(s) == s

\* first loop of read_bits_32: the bits left in the partially read byte
RECURSIVE read_bits_32_buffered(_)
read_bits_32_buffered(s) ==
    IF s.count > 0 /\ s.br.mask # 1
    THEN read_bits_32_buffered(
           [err |-> NoErr,
            br |-> [s.br EXCEPT !.mask = advance_mask(s.br.mask)],
            count |-> s.count - 1,
            result |-> IF BitAnd(s.br.mask, s.br.buffer) # 0
                       THEN BitOr(s.result, Shl32(1, s.shift)) ELSE s.result,
            shift |-> s.shift + 1])
    ELSE s

\* second loop: whole bytes, which bypass `buffer`
RECURSIVE read_bits_32_bytes(_)
read_bits_32_bytes(s) ==
    LET shift_in(r) ==
            IF r.err # NoErr THEN [s EXCEPT !.err = r.err, !.br = r.br]
            ELSE read_bits_32_bytes(
                   [s EXCEPT !.br = r.br,
                             !.count = s.count - 8,
                             !.result = BitOr(s.result, Shl32(r.val, s.shift)),
                             !.shift = s.shift + 8])
    IN  IF s.count >= 8 THEN shift_in(read_u8(s.br)) ELSE s

\* third loop: the leading bits of the next byte
RECURSIVE read_bits_32_tail(_)
read_bits_32_tail(s) ==
    LET test(r) ==
            IF r.err # NoErr THEN [s EXCEPT !.err = r.err, !.br = r.br]
            ELSE read_bits_32_tail(
                   [s EXCEPT !.br = [r.br EXCEPT !.buffer = r.val,
                                                 !.mask = advance_mask(r.br.mask)],
                             !.count = s.count - 1,
                             !.result = IF BitAnd(r.br.mask, r.val) # 0
                                        THEN BitOr(s.result, Shl32(1, s.shift))
                                        ELSE s.result,
                             !.shift = s.shift + 1])
    IN  IF s.count > 0
        THEN test(IF s.br.mask = 1 THEN read_u8(s.br)
                  ELSE [err |-> NoErr, br |-> s.br, val |-> s.br.buffer])
        ELSE s

read_bits_32(br, count) ==
    LET result(s) == [err |-> s.err, br |-> s.br, val |-> IF s.err # NoErr THEN 0 ELSE s.result]
        tail(s)   == result(IF s.err # NoErr THEN s ELSE read_bits_32_tail(s))
    IN  tail(read_bits_32_bytes(read_bits_32_buffered(
                [err |-> NoErr, br |-> br, count |-> count, result |-> 0, shift |-> 0])))

\* flush_byte that keeps the bits of the current byte
flush_byte_keep(br) == br

flush_byte(br) == [br EXCEPT !.buffer = 0, !.mask = 1]

(***************************************************************************)
(* RingBuffer: `data` is indexed 0..Capacity-1, `write` is the write       *)
(* cursor.  RingBuffer::new leaves `data` uninitialised.                   *)
(***************************************************************************)
RingBuffer_new(junk) == [data |-> [i \in 0..(Capacity - 1) |-> junk], write |-> 0]

\* for _ in 0..n { data[write] = data[read]; read += 1; write += 1; }
RECURSIVE copy_loop(_, _)
copy_loop(c, n) ==
    IF n = 0 THEN c
    ELSE copy_loop([data  |-> [c.data EXCEPT ![c.write] = c.data[c.read]],
                    write |-> c.write + 1,
                    read  |-> c.read + 1], n - 1)

self_copy(w, distance, len) ==
    IF distance > Capacity THEN [err |-> "Underflow", w |-> w]
    ELSE
      LET c0    == [data  |-> w.data,
                    write |-> w.write,
                    read  |-> (w.write + Capacity - distance) % Capacity]
          len1  == Min(len, Min(Capacity - c0.write, Capacity - c0.read))
          c1    == copy_loop(c0, len1)
          rest  == len - len1
          c2    == [c1 EXCEPT !.read = c1.read % Capacity, !.write = c1.write % Capacity]
          len2  == Min(rest, Min(Capacity - c2.write, Capacity - c2.read))
          c3    == copy_loop(c2, len2)
      IN  [err |-> NoErr, w |-> [data |-> c3.data, write |-> c3.write % Capacity]]

\* data[from .. from+Len(buf)-1] = buf
put_slice(data, from, buf) ==
    [i \in DOMAIN data |->
        IF i >= from /\ i < from + Len(buf) THEN buf[i - from + 1] ELSE data[i]]

RingBuffer_write(w, buf) ==
    LET total_to_write == Len(buf)
        wraps    == w.write + total_to_write > Capacity
        first    == IF wraps THEN Capacity - w.write ELSE 0
        data1    == IF wraps THEN put_slice(w.data, w.write, SubSeq(buf, 1, first))
                    ELSE w.data
        write1   == IF wraps THEN 0 ELSE w.write
        write_end == IF wraps THEN total_to_write - first ELSE w.write + total_to_write
    IN  [data  |-> put_slice(data1, write1, SubSeq(buf, first + 1, total_to_write)),
         write |-> write_end]

RECURSIVE copy_out_loop(_, _, _, _)
copy_out_loop(w, buflen, read_start, done) ==
    IF Len(done) < buflen
    THEN LET to_write == Min(Capacity - read_start, buflen - Len(done))
         IN  copy_out_loop(w, buflen, 0,
                 done \o [i \in 1..to_write |-> w.data[read_start + i - 1]])
    ELSE done

\* the bytes copy_out stores in a buffer of length buflen
copy_out(w, buflen, back_offset) ==
    LET back == back_offset % Capacity
    IN  copy_out_loop(w, buflen, (w.write + Capacity - back) % Capacity, <<>>)

write_u8(w, item) == RingBuffer_write(w, <<item>>)

IoCopyChunk == Capacity \div 2

RECURSIVE io_copy(_, _, _)
io_copy(br, w, remaining) ==
    LET to_read == IF remaining > IoCopyChunk THEN IoCopyChunk ELSE remaining
        store(r) == IF r.err # NoErr THEN [err |-> r.err, br |-> r.br, w |-> w]
                    ELSE io_copy(r.br, RingBuffer_write(w, r.val), remaining - to_read)
    IN  IF remaining > 0 THEN store(read_exact(br, to_read))
        ELSE [err |-> NoErr, br |-> br, w |-> w]

(***************************************************************************)
(* Huffman codes and trees (src/huffman.rs).  A CodeString is the packed   *)
(* u32 of CompactBitString27: the length above bit 27, the bits below.     *)
(***************************************************************************)
LEN_ONE == Pow2(27)

CodeString_new(len, bits) == BitOr(Shl32(len, 27), bits)

CodeString_len(c) == c \div LEN_ONE

CodeString_bits(c) == c % LEN_ONE

\* the bit pop_bit_front returns
front_bit(c) == (c \div Pow2(CodeString_len(c) - 1)) % 2

\* the CodeString pop_bit_front leaves
pop_bit_front(c) ==
    LET new_len == CodeString_len(c) - 1
    IN  new_len * LEN_ONE + (CodeString_bits(c) % Pow2(new_len))

Leaf(v) == [leaf |-> TRUE, value |-> v]

Branch(n0, n1) == [leaf |-> FALSE, child_0 |-> n0, child_1 |-> n1]

popped(codes, bit) ==
    LET sel == SelectSeq(codes, LAMBDA c : front_bit(c.code) = bit)
    IN  [i \in 1..Len(sel) |-> [value |-> sel[i].value, code |-> pop_bit_front(sel[i].code)]]

\* from_codes that takes a single code for a leaf whatever bits it has left
RECURSIVE from_codes_lenient(_)
from_codes_lenient(codes) ==
    LET join(child_0, child_1) ==
            IF ~child_0.ok \/ ~child_1.ok THEN [ok |-> FALSE]
            ELSE [ok |-> TRUE, node |-> Branch(child_0.node, child_1.node)]
    IN  IF Len(codes) = 0 THEN [ok |-> FALSE]
        ELSE IF Len(codes) = 1 THEN [ok |-> TRUE, node |-> Leaf(codes[1].value)]
        ELSE IF \E i \in 1..Len(codes) : CodeString_len(codes[i].code) = 0
        THEN [ok |-> FALSE]
        ELSE join(from_codes_lenient(popped(codes, 0)), from_codes_lenient(popped(codes, 1)))

RECURSIVE from_codes(_)
from_codes(codes) ==
    LET join(child_0, child_1) ==
            IF ~child_0.ok \/ ~child_1.ok THEN [ok |-> FALSE]
            ELSE [ok |-> TRUE, node |-> Branch(child_0.node, child_1.node)]
    IN  IF Len(codes) = 0 THEN [ok |-> FALSE]
        ELSE IF Len(codes) = 1
        THEN IF CodeString_len(codes[1].code) # 0 THEN [ok |-> FALSE]
             ELSE [ok |-> TRUE, node |-> Leaf(codes[1].value)]
        ELSE IF \E i \in 1..Len(codes) : CodeString_len(codes[i].code) = 0
        THEN [ok |-> FALSE]
        ELSE join(from_codes(popped(codes, 0)), from_codes(popped(codes, 1)))

\* read_value that descends to the second child on a 0 bit
RECURSIVE read_value_swapped(_, _)
read_value_swapped(node, br) ==
    LET descend(r) == IF r.err # NoErr THEN r
                      ELSE read_value_swapped(IF r.val = 0 THEN node.child_1 ELSE node.child_0,
                                              r.br)
    IN  IF node.leaf THEN [err |-> NoErr, br |-> br, val |-> node.value]
        ELSE descend(read_bit(br))

RECURSIVE read_value(_, _)
read_value(node, br) ==
    LET descend(r) == IF r.err # NoErr THEN r
                      ELSE read_value(IF r.val = 0 THEN node.child_0 ELSE node.child_1, r.br)
    IN  IF node.leaf THEN [err |-> NoErr, br |-> br, val |-> node.value]
        ELSE descend(read_bit(br))

(***************************************************************************)
(* Code::canonical_from_lengths.  code_lengths is a sequence; the symbol   *)
(* of its i-th entry is first_value + i - 1.  length_counts counts every   *)
(* entry, those of length 0 included.                                      *)
(***************************************************************************)
SeqMax(s) == CHOOSE m \in {s[i] : i \in 1..Len(s)} : \A i \in 1..Len(s) : s[i] <= m

length_count(code_lengths, l) == Cardinality({i \in 1..Len(code_lengths) : code_lengths[i] = l})

\* first_code without the shift
RECURSIVE first_code_unshifted(_, _)
first_code_unshifted(code_lengths, bits) ==
    IF bits = 0 THEN 0
    ELSE first_code_unshifted(code_lengths, bits - 1)
           + length_count(code_lengths, bits - 1)

\* the value of `code` after the iteration `bits` of the first-code loop
RECURSIVE first_code(_, _)
first_code(code_lengths, bits) ==
    IF bits = 0 THEN 0
    ELSE Shl32(first_code(code_lengths, bits - 1)
                 + length_count(code_lengths, bits - 1), 1)

\* canonical_from_lengths_impl that hands the codes of a length out from the last
\* symbol to the first
canonical_from_lengths_impl_backwards(first_value, code_lengths, max_length) ==
    LET first == [bits \in 1..max_length |-> first_code(code_lengths, bits)]
        used  == SelectSeq([i \in 1..Len(code_lengths) |-> i],
                           LAMBDA i : code_lengths[i] # 0)
    IN  [k \in 1..Len(used) |->
            LET n    == used[k]
                j    == code_lengths[n]
                seen == Cardinality({i \in (n + 1)..Len(code_lengths) : code_lengths[i] = j})
            IN  [value |-> first_value + n - 1,
                 code  |-> CodeString_new(j, first[j] + seen)]]

\* The third loop: the entry n of nonzero length j gets next_code[j], which is the
\* first code of j plus the number of earlier entries of length j.
canonical_from_lengths_impl(first_value, code_lengths, max_length) ==
    LET first == [bits \in 1..max_length |-> first_code(code_lengths, bits)]
        used  == SelectSeq([i \in 1..Len(code_lengths) |-> i],
                           LAMBDA i : code_lengths[i] # 0)
    IN  [k \in 1..Len(used) |->
            LET n    == used[k]
                j    == code_lengths[n]
                seen == Cardinality({i \in 1..(n - 1) : code_lengths[i] = j})
            IN  [value |-> first_value + n - 1,
                 code  |-> CodeString_new(j, first[j] + seen)]]

\* canonical_from_lengths without its assertion: no lengths, no codes
canonical_from_lengths_unasserted(first_value, code_lengths) ==
    IF Len(code_lengths) = 0 THEN [panic |-> FALSE, codes |-> <<>>]
    ELSE [panic |-> FALSE,
          codes |-> canonical_from_lengths_impl(first_value, code_lengths,
                                                SeqMax(code_lengths))]

canonical_from_lengths(first_value, code_lengths) ==
    IF Len(code_lengths) = 0 THEN [panic |-> TRUE, codes |-> <<>>]
    ELSE [panic |-> FALSE,
          codes |-> canonical_from_lengths_impl(first_value, code_lengths,
                                                SeqMax(code_lengths))]

(***************************************************************************)
(* The same construction with its scratch buffers.  length_counts and      *)
(* next_code are arrays of max_length + 1 slots that                       *)
(* canonical_from_lengths_known_max takes from the stack, or from the heap *)
(* above MAX_STACK_BUFFER_LENGTH slots, without initialising them; `junk`  *)
(* is what the slots hold then.                                            *)
(***************************************************************************)
MAX_STACK_BUFFER_LENGTH == 4096

\* for i in code_lengths { length_counts[*i] += 1 }
count_lengths(code_lengths, length_counts) ==
    [l \in DOMAIN length_counts |->
        length_counts[l] + Cardinality({i \in 1..Len(code_lengths) : code_lengths[i] = l})]

\* for bits in 1..=max_length { code = (code + length_counts[bits - 1]) << 1; ... }
RECURSIVE first_codes(_, _, _, _, _)
first_codes(length_counts, next_code, bits, code, max_length) ==
    IF bits > max_length THEN next_code
    ELSE first_codes(length_counts,
                     [next_code EXCEPT ![bits] = Shl32(code + length_counts[bits - 1], 1)],
                     bits + 1, Shl32(code + length_counts[bits - 1], 1), max_length)

\* for len in code_lengths { if j != 0 { codes.push(..); next_code[j] += 1 } ... }:
\* the entry n of nonzero length j finds next_code[j] raised once by every earlier
\* entry of length j
assign_codes(first_value, code_lengths, next_code) ==
    LET used == SelectSeq([i \in 1..Len(code_lengths) |-> i],
                          LAMBDA i : code_lengths[i] # 0)
    IN  [k \in 1..Len(used) |->
            [value |-> first_value + used[k] - 1,
             code  |-> CodeString_new(
                          code_lengths[used[k]],
                          next_code[code_lengths[used[k]]]
                            + Cardinality({i \in 1..(used[k] - 1) :
                                              code_lengths[i] = code_lengths[used[k]]}))]]

canonical_from_lengths_loops(first_value, code_lengths, max_length, length_counts, next_code) ==
    assign_codes(first_value, code_lengths,
                 first_codes(count_lengths(code_lengths, length_counts),
                             next_code, 1, 0, max_length))

\* canonical_from_lengths_known_max that leaves length_counts as it finds it
canonical_from_lengths_known_max_unzeroed(first_value, code_lengths, max_length, junk) ==
    canonical_from_lengths_loops(first_value, code_lengths, max_length,
                                 [i \in 0..max_length |-> junk.length_counts],
                                 [i \in 0..max_length |-> junk.next_code])

\* Both branches zero length_counts (the loop, or resize(buffer_len, 0)) and leave
\* next_code as it is.
canonical_from_lengths_known_max(first_value, code_lengths, max_length, junk) ==
    LET buffer_len == max_length + 1
        length_counts == [i \in 0..(buffer_len - 1) |-> junk.length_counts]
        zeroed == [i \in 0..(buffer_len - 1) |-> IF i < buffer_len THEN 0 ELSE length_counts[i]]
        next_code == [i \in 0..(buffer_len - 1) |-> junk.next_code]
    IN  IF buffer_len <= MAX_STACK_BUFFER_LENGTH
        THEN canonical_from_lengths_loops(first_value, code_lengths, max_length,
                                          zeroed, next_code)
        ELSE canonical_from_lengths_loops(first_value, code_lengths, max_length,
                                          [i \in 0..(buffer_len - 1) |-> 0], next_code)

(***************************************************************************)
(* The code tables of a block (src/io/deflate/mod.rs)                      *)
(***************************************************************************)
fixed_huffman_codes ==
    [litlen |->
        [i \in 1..288 |->
            LET value == i - 1
            IN  [value |-> value,
                 code  |-> IF value <= 143 THEN CodeString_new(8, 48 + value)
                           ELSE IF value <= 255 THEN CodeString_new(9, 400 + (value - 144))
                           ELSE IF value <= 279 THEN CodeString_new(7, value - 256)
                           ELSE CodeString_new(8, 192 + (value - 280))]],
     distance |->
        [i \in 1..32 |-> [value |-> i - 1, code |-> CodeString_new(5, i - 1)]]]

\* SWIZZLE that stores the i-th value in slot i
SWIZZLE_straight == <<0, 1, 2, 3, 4, 5, 6, 7, 8, 9, 10, 11, 12, 13, 14, 15, 16, 17, 18>>

SWIZZLE == <<16, 17, 18, 0, 8, 7, 9, 6, 10, 5, 11, 4, 12, 3, 13, 2, 14, 1, 15>>

\* for i in 0..hclen { code_lengths[SWIZZLE[i]] = read_bits_32(3)? }
RECURSIVE read_code_length_lengths(_, _, _, _)
read_code_length_lengths(br, code_lengths, i, hclen) ==
    LET store(r) ==
            IF r.err # NoErr THEN [err |-> r.err, br |-> r.br, val |-> code_lengths]
            ELSE read_code_length_lengths(r.br,
                     [code_lengths EXCEPT ![SWIZZLE[i + 1] + 1] = r.val], i + 1, hclen)
    IN  IF i < hclen THEN store(read_bits_32(br, 3))
        ELSE [err |-> NoErr, br |-> br, val |-> code_lengths]

\* repeat_previous that leaves the n entries as they are
repeat_previous_zero(code_lengths, i, previous, n) ==
    [panic |-> i + n > 320, val |-> code_lengths, i |-> i + n]

\* for _ in 0..n { code_lengths[i] = previous; i += 1; }   (1-based sequence here)
RECURSIVE repeat_previous(_, _, _, _)
repeat_previous(code_lengths, i, previous, n) ==
    IF n = 0 THEN [panic |-> FALSE, val |-> code_lengths, i |-> i]
    ELSE IF i >= 320 THEN [panic |-> TRUE, val |-> code_lengths, i |-> i]
    ELSE repeat_previous([code_lengths EXCEPT ![i + 1] = previous], i + 1, previous, n - 1)

\* while i < hlit + hdist { match tree.read_value(bitreader)? { ... } }
RECURSIVE read_code_lengths(_, _, _, _, _, _)
read_code_lengths(tree, br, code_lengths, i, previous, total) ==
    LET Fail(err, b) == [err |-> err, br |-> b, val |-> code_lengths]
        \* 16: the previous length, 3 to 6 times
        copy(x) ==
            LET w == repeat_previous(code_lengths, i, previous, x.val + 3)
            IN  IF x.err # NoErr THEN Fail(x.err, x.br)
                ELSE IF w.panic THEN [err |-> "Panic", br |-> x.br, val |-> w.val]
                ELSE read_code_lengths(tree, x.br, w.val, w.i, previous, total)
        \* 17 and 18: `base` + x entries are skipped and stay 0
        skip(x, base) ==
            IF x.err # NoErr THEN Fail(x.err, x.br)
            ELSE read_code_lengths(tree, x.br, code_lengths, i + x.val + base, 0, total)
        symbol(r) ==
            IF r.err # NoErr THEN Fail(r.err, r.br)
            ELSE IF r.val <= 15
            THEN IF i >= 320 THEN Fail("Panic", r.br)
                 ELSE read_code_lengths(tree, r.br, [code_lengths EXCEPT ![i + 1] = r.val],
                                        i + 1, r.val, total)
            ELSE IF r.val = 16 THEN copy(read_bits_32(r.br, 2))
            ELSE IF r.val = 17 THEN skip(read_bits_32(r.br, 3), 3)
            ELSE IF r.val = 18 THEN skip(read_bits_32(r.br, 7), 11)
            ELSE Fail("BadHuffmanCodes", r.br)
    IN  IF i < total THEN symbol(read_value(tree, br))
        ELSE [err |-> NoErr, br |-> br, val |-> code_lengths]

NoCodes == [litlen |-> <<>>, distance |-> <<>>]

\* dynamic_huffman_codes that reads HCLEN as 5 bits; a count above the 19 entries
\* of SWIZZLE is an index out of bounds
dynamic_huffman_codes_hclen5(br) ==
    LET Locals(hlit, hdist, hclen, code_length_lengths, code_lengths) ==
            [hlit |-> hlit, hdist |-> hdist, hclen |-> hclen,
             code_length_lengths |-> code_length_lengths, code_lengths |-> code_lengths]
        Fail(err, b, locals) == [err |-> err, br |-> b, codes |-> NoCodes, locals |-> locals]
        tables(hlit, hdist, hclen, c, r) ==
            IF r.err # NoErr THEN Fail(r.err, r.br, Locals(hlit, hdist, hclen, c, r.val))
            ELSE [err |-> NoErr, br |-> r.br,
                  codes |-> [litlen   |-> canonical_from_lengths(0, SubSeq(r.val, 1, hlit)).codes,
                             distance |-> canonical_from_lengths(0, SubSeq(r.val, hlit + 1, 320)).codes],
                  locals |-> Locals(hlit, hdist, hclen, c, r.val)]
        lengths(hlit, hdist, hclen, c, b, tree) ==
            IF ~tree.ok THEN Fail("BadHuffmanCodes", b, Locals(hlit, hdist, hclen, c, <<>>))
            ELSE tables(hlit, hdist, hclen, c,
                        read_code_lengths(tree.node, b, [i \in 1..320 |-> 0], 0, 0,
                                          hlit + hdist))
        code_length_tree(hlit, hdist, hclen, r) ==
            IF r.err # NoErr THEN Fail(r.err, r.br, Locals(hlit, hdist, hclen, r.val, <<>>))
            ELSE lengths(hlit, hdist, hclen, r.val, r.br,
                         from_codes(canonical_from_lengths(0, r.val).codes))
        after_hclen(hlit, hdist, r) ==
            IF r.err # NoErr THEN Fail(r.err, r.br, Locals(hlit, hdist, 0, <<>>, <<>>))
            ELSE IF r.val + 4 > 19 THEN Fail("Panic", r.br, Locals(hlit, hdist, r.val + 4, <<>>, <<>>))
            ELSE code_length_tree(hlit, hdist, r.val + 4,
                     read_code_length_lengths(r.br, [i \in 1..19 |-> 0], 0, r.val + 4))
        after_hdist(hlit, r) ==
            IF r.err # NoErr THEN Fail(r.err, r.br, Locals(hlit, 0, 0, <<>>, <<>>))
            ELSE after_hclen(hlit, r.val + 1, read_bits_32(r.br, 5))
        after_hlit(r) ==
            IF r.err # NoErr THEN Fail(r.err, r.br, Locals(0, 0, 0, <<>>, <<>>))
            ELSE after_hdist(r.val + 257, read_bits_32(r.br, 5))
    IN  after_hlit(read_bits_32(br, 5))

\* `locals` are hlit, hdist, hclen and the two code_lengths arrays as the function
\* leaves them (0 and <<>> for those it has not reached)
dynamic_huffman_codes(br) ==
    LET Locals(hlit, hdist, hclen, code_length_lengths, code_lengths) ==
            [hlit |-> hlit, hdist |-> hdist, hclen |-> hclen,
             code_length_lengths |-> code_length_lengths, code_lengths |-> code_lengths]
        Fail(err, b, locals) == [err |-> err, br |-> b, codes |-> NoCodes, locals |-> locals]
        tables(hlit, hdist, hclen, c, r) ==
            IF r.err # NoErr THEN Fail(r.err, r.br, Locals(hlit, hdist, hclen, c, r.val))
            ELSE [err |-> NoErr, br |-> r.br,
                  codes |-> [litlen   |-> canonical_from_lengths(0, SubSeq(r.val, 1, hlit)).codes,
                             distance |-> canonical_from_lengths(0, SubSeq(r.val, hlit + 1, 320)).codes],
                  locals |-> Locals(hlit, hdist, hclen, c, r.val)]
        lengths(hlit, hdist, hclen, c, b, tree) ==
            IF ~tree.ok THEN Fail("BadHuffmanCodes", b, Locals(hlit, hdist, hclen, c, <<>>))
            ELSE tables(hlit, hdist, hclen, c,
                        read_code_lengths(tree.node, b, [i \in 1..320 |-> 0], 0, 0,
                                          hlit + hdist))
        code_length_tree(hlit, hdist, hclen, r) ==
            IF r.err # NoErr THEN Fail(r.err, r.br, Locals(hlit, hdist, hclen, r.val, <<>>))
            ELSE lengths(hlit, hdist, hclen, r.val, r.br,
                         from_codes(canonical_from_lengths(0, r.val).codes))
        after_hclen(hlit, hdist, r) ==
            IF r.err # NoErr THEN Fail(r.err, r.br, Locals(hlit, hdist, 0, <<>>, <<>>))
            ELSE code_length_tree(hlit, hdist, r.val + 4,
                     read_code_length_lengths(r.br, [i \in 1..19 |-> 0], 0, r.val + 4))
        after_hdist(hlit, r) ==
            IF r.err # NoErr THEN Fail(r.err, r.br, Locals(hlit, 0, 0, <<>>, <<>>))
            ELSE after_hclen(hlit, r.val + 1, read_bits_32(r.br, 4))
        after_hlit(r) ==
            IF r.err # NoErr THEN Fail(r.err, r.br, Locals(0, 0, 0, <<>>, <<>>))
            ELSE after_hdist(r.val + 257, read_bits_32(r.br, 5))
    IN  after_hlit(read_bits_32(br, 5))

LENGTH_BASE ==
    <<3, 4, 5, 6, 7, 8, 9, 10, 11, 13,
      15, 17, 19, 23, 27, 31, 35, 43, 51, 59,
      67, 83, 99, 115, 131, 163, 195, 227, 258>>

LENGTH_EXTRA ==
    <<0, 0, 0, 0, 0, 0, 0, 0, 1, 1, 1, 1, 2, 2, 2, 2, 3, 3, 3, 3, 4, 4, 4, 4, 5, 5, 5, 5, 0>>

DIST_BASE ==
    <<1, 2, 3, 4, 5, 7, 9, 13, 17, 25, 33, 49, 65, 97, 129, 193,
      257, 385, 513, 769, 1025, 1537, 2049, 3073, 4097, 6145, 8193, 12289, 16385, 24577, 0, 0>>

\* DIST_EXTRA with one extra bit for the symbols 30 and 31
DIST_EXTRA_reserved ==
    <<0, 0, 0, 0, 1, 1, 2, 2, 3, 3, 4, 4, 5, 5, 6, 6, 7, 7, 8, 8, 9, 9, 10, 10, 11, 11, 12, 12, 13, 13, 1, 1>>

DIST_EXTRA ==
    <<0, 0, 0, 0, 1, 1, 2, 2, 3, 3, 4, 4, 5, 5, 6, 6, 7, 7, 8, 8, 9, 9, 10, 10, 11, 11, 12, 12, 13, 13, 0, 0>>

\* read_length_distance_pair that decodes the distance symbol before it reads the
\* extra bits of the length
read_length_distance_pair_swapped(code, dist_tree, br) ==
    LET Fail(err, b) == [err |-> err, br |-> b, len |-> 0, dist |-> 0]
        extra(b, n) == IF n # 0 THEN read_bits_32(b, n) ELSE [err |-> NoErr, br |-> b, val |-> 0]
        pair(len, dist_base, r) ==
            IF r.err # NoErr THEN Fail(r.err, r.br)
            ELSE [err |-> NoErr, br |-> r.br,
                  len |-> len % 65536, dist |-> (dist_base + r.val) % 65536]
        length(d, r) ==
            IF r.err # NoErr THEN Fail(r.err, r.br)
            ELSE pair(LENGTH_BASE[code + 1] + r.val, DIST_BASE[d + 1],
                      extra(r.br, DIST_EXTRA[d + 1]))
        distance(r) ==
            IF r.err # NoErr THEN Fail(r.err, r.br)
            ELSE IF r.val >= 32 THEN Fail("Panic", r.br)
            ELSE length(r.val, extra(r.br, LENGTH_EXTRA[code + 1]))
    IN  distance(read_value(dist_tree, br))

read_length_distance_pair(code, dist_tree, br) ==
    LET Fail(err, b) == [err |-> err, br |-> b, len |-> 0, dist |-> 0]
        extra(b, n) == IF n # 0 THEN read_bits_32(b, n) ELSE [err |-> NoErr, br |-> b, val |-> 0]
        pair(len, dist_base, r) ==
            IF r.err # NoErr THEN Fail(r.err, r.br)
            ELSE [err |-> NoErr, br |-> r.br,
                  len |-> len % 65536, dist |-> (dist_base + r.val) % 65536]
        distance(len, r) ==
            IF r.err # NoErr THEN Fail(r.err, r.br)
            ELSE IF r.val >= 32 THEN Fail("Panic", r.br)
            ELSE pair(len, DIST_BASE[r.val + 1], extra(r.br, DIST_EXTRA[r.val + 1]))
        length(r) ==
            IF r.err # NoErr THEN Fail(r.err, r.br)
            ELSE distance(LENGTH_BASE[code + 1] + r.val, read_value(dist_tree, r.br))
    IN  length(IF LENGTH_EXTRA[code + 1] # 0 THEN read_bits_32(br, LENGTH_EXTRA[code + 1])
               ELSE [err |-> NoErr, br |-> br, val |-> 0])

(***************************************************************************)
(* DeflateDecompressorState.  The Huffman state keeps its two trees as     *)
(* `tables`, the code lists they are built from (or the mark of the fixed  *)
(* tables); tree_of rebuilds the trees, which are a function of the lists. *)
(***************************************************************************)
Complete == [tag |-> "Complete"]

Uncompressed(bfinal, len) == [tag |-> "Uncompressed", bfinal |-> bfinal, uncompressed |-> len]

Huffman(bfinal, tables) ==
    [tag |-> "Huffman", bfinal |-> bfinal, tables |-> tables, distance |-> 0, copy_len |-> 0]

fixed_huffman_trees ==
    [litlen_tree   |-> from_codes(fixed_huffman_codes.litlen),
     distance_tree |-> from_codes(fixed_huffman_codes.distance)]

tree_of(tables) ==
    IF tables.kind = "fixed" THEN fixed_huffman_trees
    ELSE [litlen_tree   |-> from_codes(tables.litlen),
          distance_tree |-> from_codes(tables.distance)]

\* from_bitreader that takes BTYPE 3 for a block with the fixed tables
from_bitreader_lenient(br) ==
    LET Fail(err, b) == [err |-> err, br |-> b, state |-> Complete]
        trees(bfinal, tables, b, t) ==
            IF ~t.litlen_tree.ok \/ ~t.distance_tree.ok THEN Fail("BadHuffmanCodes", b)
            ELSE [err |-> NoErr, br |-> b, state |-> Huffman(bfinal, tables)]
        codes(bfinal, r) ==
            IF r.err # NoErr THEN Fail(r.err, r.br)
            ELSE trees(bfinal, r.tables, r.br, tree_of(r.tables))
        nlen(bfinal, len, r) ==
            IF r.err # NoErr THEN Fail(r.err, r.br)
            ELSE IF len # 65535 - r.val THEN Fail("NonMatchingLenNLen", r.br)
            ELSE [err |-> NoErr, br |-> r.br, state |-> Uncompressed(bfinal, len)]
        stored(bfinal, r) ==
            IF r.err # NoErr THEN Fail(r.err, r.br)
            ELSE nlen(bfinal, r.val, read_u16_le(r.br))
        dynamic(r) ==
            [err |-> r.err, br |-> r.br,
             tables |-> [kind |-> "dynamic", litlen |-> r.codes.litlen,
                         distance |-> r.codes.distance]]
        btype(bfinal, r) ==
            IF r.err # NoErr THEN Fail(r.err, r.br)
            ELSE IF r.val = 0 THEN stored(bfinal, read_u16_le(flush_byte(r.br)))
            ELSE codes(bfinal,
                       IF r.val # 2 THEN [err |-> NoErr, br |-> r.br, tables |-> [kind |-> "fixed"]]
                       ELSE dynamic(dynamic_huffman_codes(r.br)))
        header(r) ==
            IF r.err # NoErr THEN Fail(r.err, r.br)
            ELSE btype(r.val # 0, read_bits_32(r.br, 2))
    IN  header(read_bit(br))

from_bitreader(br) ==
    LET Fail(err, b) == [err |-> err, br |-> b, state |-> Complete]
        trees(bfinal, tables, b, t) ==
            IF ~t.litlen_tree.ok \/ ~t.distance_tree.ok THEN Fail("BadHuffmanCodes", b)
            ELSE [err |-> NoErr, br |-> b, state |-> Huffman(bfinal, tables)]
        codes(bfinal, r) ==
            IF r.err # NoErr THEN Fail(r.err, r.br)
            ELSE trees(bfinal, r.tables, r.br, tree_of(r.tables))
        nlen(bfinal, len, r) ==
            IF r.err # NoErr THEN Fail(r.err, r.br)
            ELSE IF len # 65535 - r.val THEN Fail("NonMatchingLenNLen", r.br)
            ELSE [err |-> NoErr, br |-> r.br, state |-> Uncompressed(bfinal, len)]
        stored(bfinal, r) ==
            IF r.err # NoErr THEN Fail(r.err, r.br)
            ELSE nlen(bfinal, r.val, read_u16_le(r.br))
        dynamic(r) ==
            [err |-> r.err, br |-> r.br,
             tables |-> [kind |-> "dynamic", litlen |-> r.codes.litlen,
                         distance |-> r.codes.distance]]
        btype(bfinal, r) ==
            IF r.err # NoErr THEN Fail(r.err, r.br)
            ELSE IF r.val = 0 THEN stored(bfinal, read_u16_le(flush_byte(r.br)))
            ELSE IF r.val \in {1, 2}
            THEN codes(bfinal,
                       IF r.val = 1 THEN [err |-> NoErr, br |-> r.br, tables |-> [kind |-> "fixed"]]
                       ELSE dynamic(dynamic_huffman_codes(r.br)))
            ELSE Fail("InvalidBType", r.br)
        header(r) ==
            IF r.err # NoErr THEN Fail(r.err, r.br)
            ELSE btype(r.val # 0, read_bits_32(r.br, 2))
    IN  header(read_bit(br))

(***************************************************************************)
(* DeflateDecompressor.  A decoder d is the record of its four fields.     *)
(* Results carry res (Ok, Err or Panic), the error, the value and the      *)
(* decoder as the call leaves it.  `raw` counts the bytes the Uncompressed *)
(* arm copied during the call.                                             *)
(***************************************************************************)
ResOf(err) == IF err = NoErr THEN "Ok" ELSE IF err = "Panic" THEN "Panic" ELSE "Err"

Failure(err, d, raw) == [res |-> ResOf(err), err |-> err, val |-> 0, d |-> d, raw |-> raw]

\* What the `match` of one iteration leaves: the error of a `?`, if one returned,
\* the decoder, the bytes the Uncompressed arm copied, and state_change
\* (None, or Some of a BFINAL flag).
None == [some |-> FALSE]

Some(bfinal) == [some |-> TRUE, bfinal |-> bfinal]

Step(err, d, raw, change) == [err |-> err, d |-> d, raw |-> raw, state_change |-> change]

uncompressed_arm(d) ==
    LET can_read == Capacity - d.available
        to_read  == Min(d.state.uncompressed, can_read)
        copied(c) ==
            IF c.err # NoErr
            THEN Step(c.err, [d EXCEPT !.bitreader = c.br, !.window = c.w], 0, None)
            ELSE Step(NoErr,
                      [d EXCEPT !.bitreader = c.br, !.window = c.w,
                                !.available = d.available + to_read,
                                !.state.uncompressed = d.state.uncompressed - to_read],
                      to_read,
                      IF d.state.uncompressed - to_read = 0 THEN Some(d.state.bfinal) ELSE None)
    IN  copied(io_copy(d.bitreader, d.window, to_read))

\* symbol_arm that passes over the symbols 286 and 287
symbol_arm_lenient(d) ==
    LET pair(p) ==
            IF p.err # NoErr THEN Step(p.err, [d EXCEPT !.bitreader = p.br], 0, None)
            ELSE Step(NoErr,
                      [d EXCEPT !.bitreader = p.br,
                                !.state.distance = p.dist,
                                !.state.copy_len = p.len],
                      0, None)
        symbol(trees, r) ==
            IF r.err # NoErr THEN Step(r.err, [d EXCEPT !.bitreader = r.br], 0, None)
            ELSE IF r.val <= 255
            THEN Step(NoErr,
                      [d EXCEPT !.bitreader = r.br,
                                !.window = write_u8(d.window, r.val),
                                !.available = d.available + 1],
                      0, None)
            ELSE IF r.val = 256
            THEN Step(NoErr, [d EXCEPT !.bitreader = r.br], 0, Some(d.state.bfinal))
            ELSE IF r.val <= 285
            THEN pair(read_length_distance_pair(r.val - 257, trees.distance_tree.node, r.br))
            ELSE Step(NoErr, [d EXCEPT !.bitreader = r.br], 0, None)
        decode(trees) == symbol(trees, read_value(trees.litlen_tree.node, d.bitreader))
    IN  decode(tree_of(d.state.tables))

symbol_arm(d) ==
    LET pair(p) ==
            IF p.err # NoErr THEN Step(p.err, [d EXCEPT !.bitreader = p.br], 0, None)
            ELSE Step(NoErr,
                      [d EXCEPT !.bitreader = p.br,
                                !.state.distance = p.dist,
                                !.state.copy_len = p.len],
                      0, None)
        symbol(trees, r) ==
            IF r.err # NoErr THEN Step(r.err, [d EXCEPT !.bitreader = r.br], 0, None)
            ELSE IF r.val <= 255
            THEN Step(NoErr,
                      [d EXCEPT !.bitreader = r.br,
                                !.window = write_u8(d.window, r.val),
                                !.available = d.available + 1],
                      0, None)
            ELSE IF r.val = 256
            THEN Step(NoErr, [d EXCEPT !.bitreader = r.br], 0, Some(d.state.bfinal))
            ELSE IF r.val <= 285
            THEN pair(read_length_distance_pair(r.val - 257, trees.distance_tree.node, r.br))
            ELSE Step("InvalidLitLenCode", [d EXCEPT !.bitreader = r.br], 0, None)
        decode(trees) == symbol(trees, read_value(trees.litlen_tree.node, d.bitreader))
    IN  decode(tree_of(d.state.tables))

\* pending_copy_arm without the `min` against the bytes still required
pending_copy_whole(d, required) ==
    LET copy_len == d.state.copy_len
        copied(c) ==
            IF c.err # NoErr THEN Step(c.err, d, 0, None)
            ELSE Step(NoErr,
                      [d EXCEPT !.window = c.w,
                                !.available = d.available + copy_len,
                                !.state.copy_len = d.state.copy_len - copy_len],
                      0, None)
    IN  copied(self_copy(d.window, d.state.distance, copy_len))

pending_copy_arm(d, required) ==
    LET still    == required - d.available
        copy_len == Min(d.state.copy_len, still)
        copied(c) ==
            IF c.err # NoErr THEN Step(c.err, d, 0, None)
            ELSE Step(NoErr,
                      [d EXCEPT !.window = c.w,
                                !.available = d.available + copy_len,
                                !.state.copy_len = d.state.copy_len - copy_len],
                      0, None)
    IN  copied(self_copy(d.window, d.state.distance, copy_len))

\* state_change that never leaves the block
state_change_never(s) == s

\* state_change that takes every completed block for the last
state_change_final(s) ==
    IF s.err # NoErr \/ ~s.state_change.some THEN s ELSE [s EXCEPT !.d.state = Complete]

\* if let Some(bfinal) = state_change { self.state = ... }
state_change(s) ==
    LET next(r) ==
            IF r.err # NoErr THEN [s EXCEPT !.err = r.err, !.d.bitreader = r.br]
            ELSE [s EXCEPT !.d.bitreader = r.br, !.d.state = r.state]
    IN  IF s.err # NoErr \/ ~s.state_change.some THEN s
        ELSE IF s.state_change.bfinal THEN [s EXCEPT !.d.state = Complete]
        ELSE next(from_bitreader(s.d.bitreader))

\* the body of `while required > self.available`, the Complete arm apart
iteration(d, required) ==
    state_change(IF d.state.tag = "Uncompressed" THEN uncompressed_arm(d)
                 ELSE IF d.state.copy_len = 0 THEN symbol_arm(d)
                 ELSE pending_copy_arm(d, required))

\* make_available_loop with `if` where the code has `while`
make_available_if(d, required, raw) ==
    LET once(s) ==
            IF s.err # NoErr THEN Failure(s.err, s.d, raw + s.raw)
            ELSE [res |-> "Ok", err |-> NoErr, val |-> s.d.available, d |-> s.d,
                  raw |-> raw + s.raw]
    IN  IF required > d.available /\ d.state.tag # "Complete"
        THEN once(iteration(d, required))
        ELSE [res |-> "Ok", err |-> NoErr, val |-> d.available, d |-> d, raw |-> raw]

\* make_available_loop that stops as soon as any byte is available
RECURSIVE make_available_any(_, _, _)
make_available_any(d, required, raw) ==
    LET again(s) ==
            IF s.err # NoErr THEN Failure(s.err, s.d, raw + s.raw)
            ELSE make_available_any(s.d, required, raw + s.raw)
    IN  IF required > d.available /\ d.available = 0 /\ d.state.tag # "Complete"
        THEN again(iteration(d, required))
        ELSE [res |-> "Ok", err |-> NoErr, val |-> d.available, d |-> d, raw |-> raw]

\* the loop; the Complete arm breaks out of it
RECURSIVE make_available_loop(_, _, _)
make_available_loop(d, required, raw) ==
    LET again(s) ==
            IF s.err # NoErr THEN Failure(s.err, s.d, raw + s.raw)
            ELSE make_available_loop(s.d, required, raw + s.raw)
    IN  IF required > d.available /\ d.state.tag # "Complete"
        THEN again(iteration(d, required))
        ELSE [res |-> "Ok", err |-> NoErr, val |-> d.available, d |-> d, raw |-> raw]

\* make_available without its assertion
make_available_unchecked(d, required) == make_available_loop(d, required, 0)

make_available(d, required) ==
    IF ~(required <= Capacity) THEN Failure("Panic", d, 0)
    ELSE make_available_loop(d, required, 0)

(***************************************************************************)
(* impl Read for DeflateDecompressor.  `buf` is what the call has stored   *)
(* in the caller's buffer, from its start; `val` is the count it returns;  *)
(* `suppressed` tells that it swallowed an error of a later chunk.         *)
(***************************************************************************)
ReadResult(res, err, val, d, buf, suppressed) ==
    [res |-> res, err |-> err, val |-> val, d |-> d, buf |-> buf, suppressed |-> suppressed]

\* read_rest whose error arm returns the error whatever read_so_far is
read_rest_surfacing(d, buflen, read_so_far, buf) ==
    LET to_read == buflen - read_so_far
        deliver(r) ==
            IF r.res = "Panic" THEN ReadResult("Panic", r.err, 0, r.d, buf, FALSE)
            ELSE IF r.res = "Err" THEN ReadResult("Err", r.err, 0, r.d, buf, FALSE)
            ELSE IF r.val = 0 THEN ReadResult("Ok", NoErr, 0, r.d, buf, FALSE)
            ELSE ReadResult("Ok", NoErr, read_so_far + Min(r.val, to_read),
                            [r.d EXCEPT !.available = r.d.available - Min(r.val, to_read)],
                            buf \o copy_out(r.d.window, Min(r.val, to_read), r.val), FALSE)
    IN  deliver(make_available(d, to_read))

\* the part of read after the chunk loop
read_rest(d, buflen, read_so_far, buf) ==
    LET to_read == buflen - read_so_far
        deliver(r) ==
            IF r.res = "Panic" THEN ReadResult("Panic", r.err, 0, r.d, buf, FALSE)
            ELSE IF r.res = "Err"
            THEN IF read_so_far = 0 THEN ReadResult("Err", r.err, 0, r.d, buf, FALSE)
                 ELSE ReadResult("Ok", NoErr, read_so_far, r.d, buf, TRUE)
            ELSE IF r.val = 0 THEN ReadResult("Ok", NoErr, 0, r.d, buf, FALSE)
            ELSE ReadResult("Ok", NoErr, read_so_far + Min(r.val, to_read),
                            [r.d EXCEPT !.available = r.d.available - Min(r.val, to_read)],
                            buf \o copy_out(r.d.window, Min(r.val, to_read), r.val), FALSE)
    IN  deliver(make_available(d, to_read))

RECURSIVE read(_, _)

RECURSIVE read_loop(_, _, _, _)
read_loop(d, buflen, read_so_far, buf) ==
    LET chunk(r) ==
            IF r.res = "Panic" THEN ReadResult("Panic", r.err, 0, r.d, buf, FALSE)
            ELSE IF r.res = "Err"
            THEN IF read_so_far = 0 THEN ReadResult("Err", r.err, 0, r.d, buf, FALSE)
                 ELSE ReadResult("Ok", NoErr, read_so_far, r.d, buf, TRUE)
            ELSE IF r.val = 0 THEN ReadResult("Ok", NoErr, read_so_far, r.d, buf, FALSE)
            ELSE read_loop(r.d, buflen, read_so_far + r.val, buf \o r.buf)
    IN  IF buflen - read_so_far > Capacity THEN chunk(read(d, Capacity))
        ELSE read_rest(d, buflen, read_so_far, buf)

read(d, buflen) == read_loop(d, buflen, 0, <<>>)

DeflateDecompressor_new(junk) ==
    LET build(r) == [err |-> r.err,
                     d   |-> [bitreader |-> r.br, state |-> r.state,
                              window |-> RingBuffer_new(junk), available |-> 0]]
    IN  build(from_bitreader(BitReaderLSB_new))

(***************************************************************************)
(* The streams the decoder is run on.  A stream is a list of blocks; a     *)
(* block is stored (its bytes), fixed or dynamic Huffman (its tokens:      *)
(* literals and length/distance pairs), or a malformed tail.  Encode lays  *)
(* the blocks out as RFC 1951 does; Expand is the byte sequence they       *)
(* stand for.                                                              *)
(***************************************************************************)
BitsLSB(v, n) == [i \in 1..n |-> (v \div Pow2(i - 1)) % 2]

BitsMSB(v, n) == [i \in 1..n |-> (v \div Pow2(n - i)) % 2]

Lit(b) == [kind |-> "lit", sym |-> b]

Match(len, dist) == [kind |-> "match", len |-> len, dist |-> dist]

Sym(s) == [kind |-> "sym", sym |-> s]

Stored(bytes) == [btype |-> 0, bytes |-> bytes, nlen_xor |-> 0]

BadStored(bytes) == [btype |-> 0, bytes |-> bytes, nlen_xor |-> 1]

Fixed(toks) == [btype |-> 1, toks |-> toks, eob |-> TRUE]

Truncated(toks) == [btype |-> 1, toks |-> toks, eob |-> FALSE]

Dynamic(toks) == [btype |-> 2, toks |-> toks, eob |-> TRUE]

Reserved == [btype |-> 3]

\* The code lengths of the dynamic blocks: literals 97 and 98 and end-of-block
\* have 2 bits, lengths 3 and 4 have 3 bits, distances 1 and 2 have 1 bit.
DynLitLenLengths ==
    [i \in 1..259 |-> IF i - 1 \in {97, 98, 256} THEN 2
                      ELSE IF i - 1 \in {257, 258} THEN 3 ELSE 0]

DynDistLengths == <<1, 1>>

\* Their header: HLIT = 2, HDIST = 1, HCLEN = 14 (the code-length symbols 18, 1,
\* 2 and 3 have 2 bits each), then 18(86) 2 2 18(127) 18(8) 2 3 3 1 1.
DynHeader ==
    BitsLSB(2, 5) \o BitsLSB(1, 5) \o BitsLSB(14, 4)
    \o BitsLSB(0, 3) \o BitsLSB(0, 3) \o BitsLSB(2, 3) \o BitsLSB(0, 3)
    \o BitsLSB(0, 3) \o BitsLSB(0, 3) \o BitsLSB(0, 3) \o BitsLSB(0, 3)
    \o BitsLSB(0, 3) \o BitsLSB(0, 3) \o BitsLSB(0, 3) \o BitsLSB(0, 3)
    \o BitsLSB(0, 3) \o BitsLSB(2, 3) \o BitsLSB(0, 3) \o BitsLSB(2, 3)
    \o BitsLSB(0, 3) \o BitsLSB(2, 3)
    \o <<1, 1>> \o BitsLSB(86, 7) \o <<0, 1>> \o <<0, 1>>
    \o <<1, 1>> \o BitsLSB(127, 7) \o <<1, 1>> \o BitsLSB(8, 7)
    \o <<0, 1>> \o <<1, 0>> \o <<1, 0>> \o <<0, 0>> \o <<0, 0>>

CodeOf(codes, sym) ==
    LET c == (CHOOSE k \in 1..Len(codes) : codes[k].value = sym)
        n == CodeString_len(codes[c].code)
    IN  BitsMSB(CodeString_bits(codes[c].code) % Pow2(n), n)

BlockCodes(block) ==
    IF block.btype = 1 THEN fixed_huffman_codes
    ELSE [litlen   |-> canonical_from_lengths(0, DynLitLenLengths).codes,
          distance |-> canonical_from_lengths(0, DynDistLengths).codes]

BaseIndex(table, top, x) ==
    CHOOSE k \in 1..top : table[k] <= x /\ (k = top \/ table[k + 1] > x)

EncodeToken(codes, t) ==
    IF t.kind = "match"
    THEN LET l == BaseIndex(LENGTH_BASE, 29, t.len)
             k == BaseIndex(DIST_BASE, 30, t.dist)
         IN  CodeOf(codes.litlen, 256 + l)
             \o BitsLSB(t.len - LENGTH_BASE[l], LENGTH_EXTRA[l])
             \o CodeOf(codes.distance, k - 1)
             \o BitsLSB(t.dist - DIST_BASE[k], DIST_EXTRA[k])
    ELSE CodeOf(codes.litlen, t.sym)

RECURSIVE EncodeTokens(_, _)
EncodeTokens(codes, toks) ==
    IF Len(toks) = 0 THEN <<>>
    ELSE EncodeToken(codes, Head(toks)) \o EncodeTokens(codes, Tail(toks))

RECURSIVE EncodeBytes(_)
EncodeBytes(bytes) ==
    IF Len(bytes) = 0 THEN <<>> ELSE BitsLSB(Head(bytes), 8) \o EncodeBytes(Tail(bytes))

\* the bits of `block`, which starts `at` bits into the stream
EncodeBlock(block, bfinal, at) ==
    LET header == <<IF bfinal THEN 1 ELSE 0>> \o BitsLSB(block.btype, 2)
        pad    == [i \in 1..((8 - ((at + 3) % 8)) % 8) |-> 0]
        len    == Len(block.bytes)
    IN  IF block.btype = 0
        THEN header \o pad \o BitsLSB(len, 16)
             \o BitsLSB(BitOr(65535 - len, block.nlen_xor) - BitAnd(65535 - len, block.nlen_xor), 16)
             \o EncodeBytes(block.bytes)
        ELSE IF block.btype = 3 THEN header
        ELSE header
             \o (IF block.btype = 2 THEN DynHeader ELSE <<>>)
             \o EncodeTokens(BlockCodes(block), block.toks)
             \o (IF block.eob THEN CodeOf(BlockCodes(block).litlen, 256) ELSE <<>>)

\* blocks[i] is final when i = final
RECURSIVE EncodeBlocks(_, _, _, _)
EncodeBlocks(blocks, i, final, bits) ==
    IF i > Len(blocks) THEN bits
    ELSE EncodeBlocks(blocks, i + 1, final,
                      bits \o EncodeBlock(blocks[i], i = final, Len(bits)))

\* The bytes of a bit string.  The unused bits of the last byte are 1s, which begin
\* no complete code of the fixed tables, so that a stream cut short ends mid-symbol.
Pack(bits) ==
    [i \in 1..((Len(bits) + 7) \div 8) |->
        LET byte == [j \in 1..8 |-> IF 8 * (i - 1) + j <= Len(bits)
                                    THEN bits[8 * (i - 1) + j] ELSE 1]
        IN  byte[1] + 2 * byte[2] + 4 * byte[3] + 8 * byte[4]
            + 16 * byte[5] + 32 * byte[6] + 64 * byte[7] + 128 * byte[8]]

RECURSIVE ExpandMatch(_, _, _)
ExpandMatch(done, len, dist) ==
    IF len = 0 THEN done
    ELSE ExpandMatch(Append(done, done[Len(done) + 1 - dist]), len - 1, dist)

RECURSIVE ExpandTokens(_, _)
ExpandTokens(done, toks) ==
    IF Len(toks) = 0 THEN done
    ELSE LET t == Head(toks)
         IN  IF t.kind = "lit" THEN ExpandTokens(Append(done, t.sym), Tail(toks))
             ELSE IF t.kind = "match"
             THEN ExpandTokens(ExpandMatch(done, t.len, t.dist), Tail(toks))
             ELSE done

\* the bytes the blocks stand for, up to the first malformed block or symbol
RECURSIVE Expand(_, _)
Expand(done, blocks) ==
    IF Len(blocks) = 0 THEN done
    ELSE LET b == Head(blocks)
         IN  IF b.btype = 3 THEN done
             ELSE IF b.btype = 0
             THEN IF b.nlen_xor # 0 THEN done ELSE Expand(done \o b.bytes, Tail(blocks))
             ELSE IF b.eob /\ \A i \in 1..Len(b.toks) : b.toks[i].kind # "sym"
             THEN Expand(ExpandTokens(done, b.toks), Tail(blocks))
             ELSE ExpandTokens(done, b.toks)

\* every length/distance pair refers to bytes that exist
RECURSIVE MatchesFit(_, _)
MatchesFit(have, toks) ==
    IF Len(toks) = 0 THEN TRUE
    ELSE LET t == Head(toks)
         IN  IF t.kind = "match"
             THEN t.dist <= have /\ MatchesFit(have + t.len, Tail(toks))
             ELSE MatchesFit(have + 1, Tail(toks))

RECURSIVE WellFormed(_, _)
WellFormed(have, blocks) ==
    IF Len(blocks) = 0 THEN TRUE
    ELSE LET b == Head(blocks)
         IN  IF b.btype = 0 THEN WellFormed(have + Len(b.bytes), Tail(blocks))
             ELSE MatchesFit(have, b.toks)
                  /\ WellFormed(Len(ExpandTokens([i \in 1..have |-> 0], b.toks)), Tail(blocks))

ValidBlocks ==
    { Stored(<<>>), Stored(<<97>>), Stored(<<97, 98, 99>>),
      Fixed(<<Lit(200)>>), Fixed(<<Lit(98), Match(3, 1)>>), Fixed(<<Match(3, 1)>>),
      Fixed(<<Match(3, Capacity)>>),
      Dynamic(<<Lit(97), Match(3, 1)>>), Dynamic(<<Match(4, 2)>>) }

ValidStreams ==
    { s \in { <<a>> : a \in ValidBlocks } \cup (ValidBlocks \X ValidBlocks)
            \cup { <<Stored(<<97, 98, 99>>), Stored(<<100, 101>>), Fixed(<<Match(3, 1)>>)>> } :
        WellFormed(0, s) }

\* a valid beginning, then the first malformed or missing data
Prefixes ==
    { <<Stored(<<97>>)>>, <<Fixed(<<Lit(98), Match(3, 1)>>)>>,
      <<Stored(<<97, 98, 99>>), Stored(<<100, 101, 102>>)>> }

Tails ==
    { <<Reserved, Stored(<<103>>)>>, <<BadStored(<<103>>)>>,
      <<Fixed(<<Lit(97), Sym(286)>>)>>, <<Truncated(<<Lit(97)>>)>> }

CorruptStreams == { p \o t : p \in Prefixes, t \in Tails }

\* uninitialised window bytes
Junk == {0, 255}

TheDecoder ==
    [bitreader |-> bitreader, state |-> state, window |-> window, available |-> available]

NoCall ==
    [op |-> "none", n |-> 0, res |-> "Ok", err |-> NoErr, val |-> 0,
     entry |-> 0, raw |-> 0, copied |-> 0, suppressed |-> FALSE]

\* A stream and the memory the window will be given; no decoder exists yet.
Start(blocks, valid, junk) ==
    /\ source = Pack(EncodeBlocks(blocks, 1, Len(blocks), <<>>))
    /\ expect = [orig |-> Expand(<<>>, blocks), valid |-> valid, whole |-> <<>>]
    /\ bitreader = BitReaderLSB_new
    /\ state = [tag |-> "None"]
    /\ window = RingBuffer_new(junk)
    /\ available = 0
    /\ out = <<>>
    /\ failed = FALSE
    /\ direct = FALSE
    /\ last = NoCall

Init ==
    \E junk \in Junk :
        \/ \E s \in ValidStreams : Start(s, TRUE, junk)
        \/ \E s \in CorruptStreams : Start(s, FALSE, junk)

\* a buffer that holds the whole output of every stream, served in whole chunks
LargeBuf == 4 * Capacity

\* DeflateDecompressor::new, which reads the first block header.  expect.whole
\* records what one read call with a large buffer returns for this stream.
New ==
    LET whole(r) == IF r.res = "Ok" THEN SubSeq(r.buf, 1, r.val) ELSE <<>>
        built(n) ==
            /\ n.err = NoErr
            /\ bitreader' = n.d.bitreader
            /\ state' = n.d.state
            /\ window' = n.d.window
            /\ available' = n.d.available
            /\ expect' = [expect EXCEPT !.whole = whole(read(n.d, LargeBuf))]
    IN  /\ state.tag = "None"
        /\ built(DeflateDecompressor_new(window.data[0]))
        /\ last' = [NoCall EXCEPT !.op = "new"]
        /\ UNCHANGED <<source, out, failed, direct>>

\* the caller calls read with a buffer of n bytes and keeps the bytes it reports
ReadCall(n) ==
    LET returned(r) ==
            /\ bitreader' = r.d.bitreader
            /\ state' = r.d.state
            /\ window' = r.d.window
            /\ available' = r.d.available
            /\ out' = IF r.res = "Ok" THEN out \o SubSeq(r.buf, 1, r.val) ELSE out
            /\ failed' = (failed \/ r.res = "Err")
            /\ last' = [op |-> "read", n |-> n, res |-> r.res, err |-> r.err, val |-> r.val,
                        entry |-> available, raw |-> 0, copied |-> Len(r.buf),
                        suppressed |-> r.suppressed]
    IN  /\ state.tag # "None"
        /\ returned(read(TheDecoder, n))
        /\ UNCHANGED <<source, expect, direct>>

MakeAvailableCall(n) ==
    LET returned(r) ==
            /\ bitreader' = r.d.bitreader
            /\ state' = r.d.state
            /\ window' = r.d.window
            /\ available' = r.d.available
            /\ failed' = (failed \/ r.res = "Err")
            /\ last' = [op |-> "make_available", n |-> n, res |-> r.res, err |-> r.err,
                        val |-> r.val, entry |-> available, raw |-> r.raw,
                        copied |-> 0, suppressed |-> FALSE]
    IN  /\ state.tag # "None"
        /\ returned(make_available(TheDecoder, n))
        /\ direct' = TRUE
        /\ UNCHANGED <<source, expect, out>>

Next ==
    \/ New
    \/ \E n \in 0..MaxBuf : ReadCall(n)
    \/ \E n \in 0..(Capacity + 1) : MakeAvailableCall(n)

Spec == Init /\ [][Next]_vars

(***************************************************************************)
(* The properties.  `out` is what the caller has been given so far, `last` *)
(* the call that led to the state, `failed` whether some call has returned *)
(* an error, `direct` whether the caller has called make_available itself. *)
(***************************************************************************)

\* a read into a non-empty buffer has returned 0
EndOfStream == last.op = "read" /\ last.n > 0 /\ last.res = "Ok" /\ last.val = 0

\* C1: for a fully decodable stream, the bytes returned by any sequence of read
\* calls until read returns 0 are the bytes one large read call returns.
ChunkedReadsAgree ==
    (expect.valid /\ ~direct /\ EndOfStream) => out = expect.whole

\* C2: reading a valid encoding to end-of-stream never fails and reproduces the
\* original bytes exactly.
RoundTrip ==
    (expect.valid /\ ~direct) => (~failed /\ (EndOfStream => out = expect.orig))

\* C3: when make_available(n), n within the window, returns Ok(v), v is the
\* decoder's available count, and v >= n unless the decoder is Complete.
MakeAvailableCount ==
    (last.op = "make_available" /\ last.n <= Capacity /\ last.res = "Ok")
        => (last.val = available /\ (last.val >= last.n \/ state = Complete))

\* make_available reported fewer bytes than asked for, at the end of the stream
MakeAvailableShortAtEnd ==
    /\ last.op = "make_available" /\ last.res = "Ok"
    /\ 0 < last.val /\ last.val < last.n /\ last.n <= Capacity
    /\ state = Complete

\* C4 as claimed: in every block type, on return of make_available(n) the available
\* count does not exceed max(n, the count at entry).
NoOverRead ==
    (last.op = "make_available" /\ last.res # "Panic")
        => (available <= last.n \/ available <= last.entry)

\* C4 as amended: on return of make_available(n) the available count exceeds
\* max(n, the count at entry) by no more than the bytes the call copied from
\* uncompressed blocks, and it never exceeds the window.
OverReadOnlyStored ==
    (last.op = "make_available" /\ last.res # "Panic")
        => /\ available <= Capacity
           /\ (available - last.raw <= last.n \/ available - last.raw <= last.entry)

\* make_available(n) left more than max(n, entry) bytes available
StoredOverRead ==
    /\ last.op = "make_available" /\ last.res = "Ok" /\ last.raw > 0
    /\ available > last.n /\ available > last.entry

\* C5: of a stream that decodes to N bytes before its first malformed or missing
\* data, exactly those N bytes have been delivered when a read returns an error.
PartialFailureBoundary ==
    (~expect.valid /\ ~direct /\ last.op = "read" /\ last.res = "Err")
        => out = expect.orig

\* C6: once a call has returned an error, every later call with n > 0 returns an
\* error and delivers nothing.
ErrorsAreFatal ==
    [][(failed /\ last'.n > 0 /\ ~(last'.op = "make_available" /\ last'.n > Capacity))
          => (last'.res = "Err" /\ out' = out)]_vars

\* C7: a read call that has copied a byte into the caller's buffer returns Ok,
\* with the count of the bytes copied when it swallowed the error of a later chunk.
PartialReadIsOk ==
    (last.op = "read" /\ last.copied > 0)
        => (last.res = "Ok" /\ (last.suppressed => last.val = last.copied))

\* a read call swallowed an error after it had copied bytes
ErrorSuppressed ==
    last.op = "read" /\ last.suppressed /\ last.copied > 0 /\ last.res = "Ok"

\* C8: the read call that follows a read call which swallowed an error returns
\* an error.
DeferredError ==
    [][(last.op = "read" /\ last.suppressed /\ last'.op = "read" /\ last'.n > 0)
          => last'.res = "Err"]_vars

\* C9: read with a non-empty buffer returns Ok(0) only when the decoder is
\* Complete and holds no decoded byte that it has yet to deliver.
ZeroOnlyAtEnd ==
    EndOfStream => (state = Complete /\ available = 0)

\* a read returned 0 after the stream's bytes had been delivered
ZeroAtEnd ==
    EndOfStream /\ expect.valid /\ Len(out) > 0 /\ state = Complete

\* C10: make_available(n) with n beyond the window panics, and leaves the byte
\* source, the block state, the window and the available count as they were.
OversizeRequestPanics ==
    [][(last'.op = "make_available" /\ last'.n > Capacity)
          => (last'.res = "Panic" /\ UNCHANGED <<bitreader, state, window, available, out>>)]_vars

\* make_available was called, mid-stream, with a request beyond the window
OversizeRequest ==
    /\ last.op = "make_available" /\ last.n > Capacity /\ last.res = "Panic"
    /\ available > 0 /\ state.tag = "Huffman"

(***************************************************************************)
(* The window on its own: a caller writes bytes and asks for self-copies.  *)
(* `window` is the RingBuffer; `out` is the end of the stream the calls    *)
(* stand for, its last Capacity bytes at most, so that Len(out) is the     *)
(* number of bytes written so far, bounded by the capacity.                *)
(* `expect.valid` tells that every self-copy so far referred to bytes that *)
(* had been written.                                                       *)
(***************************************************************************)
LastBytes(s) == SubSeq(s, Len(s) - Min(Len(s), Capacity) + 1, Len(s))

RingBytes == {1, 2}

\* the slices the decoder hands to write: one byte, or a chunk of io_copy
RingSlices == UNION { [1..n -> RingBytes] : n \in 1..IoCopyChunk }

\* the window w holds the end s of the stream, the newest byte just before the
\* write cursor
HoldsStream(w, s) ==
    \A k \in 1..Len(s) :
        w.data[(w.write + Capacity - k) % Capacity] = s[Len(s) + 1 - k]

\* The calls are made on a window in use as the decoder uses it: it holds the
\* stream, and no self-copy has referred to bytes never written.
InUse == expect.valid /\ HoldsStream(window, out)

RingNoCall == [op |-> "none", distance |-> 0, len |-> 0, err |-> NoErr]

RingInit ==
    \E junk \in Junk :
        /\ window = RingBuffer_new(junk)
        /\ out = <<>>
        /\ expect = [valid |-> TRUE]
        /\ last = RingNoCall
        /\ source = <<>>
        /\ bitreader = BitReaderLSB_new
        /\ state = [tag |-> "None"]
        /\ available = 0
        /\ failed = FALSE
        /\ direct = FALSE

RingWrite(buf) ==
    /\ InUse
    /\ window' = RingBuffer_write(window, buf)
    /\ out' = LastBytes(out \o buf)
    /\ last' = [RingNoCall EXCEPT !.op = "write", !.len = Len(buf)]
    /\ UNCHANGED <<source, expect, bitreader, state, available, failed, direct>>

RingSelfCopy(distance, len) ==
    LET copied(r) ==
            /\ window' = r.w
            /\ last' = [op |-> "self_copy", distance |-> distance, len |-> len,
                        err |-> r.err]
    IN  /\ InUse
        /\ copied(self_copy(window, distance, len))
        /\ out' = IF distance <= Len(out) THEN LastBytes(ExpandMatch(out, len, distance))
                  ELSE out
        /\ expect' = [valid |-> expect.valid /\ distance <= Len(out)]
        /\ UNCHANGED <<source, bitreader, state, available, failed, direct>>

RingNext ==
    \/ \E buf \in RingSlices : RingWrite(buf)
    \/ \E distance \in 1..(Capacity + 1), len \in 1..Capacity : RingSelfCopy(distance, len)

RingSpec == RingInit /\ [][RingNext]_vars

\* C11: on a window that holds the stream, self_copy(distance, len) with
\* 1 <= distance <= min(bytes written, capacity) appends len bytes, each equal to
\* the byte `distance` before it, and advances the write cursor by len modulo the
\* capacity.
SelfCopyAppends ==
    [][(last'.op = "self_copy" /\ last'.distance <= Len(out)
            /\ HoldsStream(window, out))
          => /\ last'.err = NoErr
             /\ HoldsStream(window', out')
             /\ window'.write % Capacity = (window.write + last'.len) % Capacity]_vars

\* C12: a self-copy whose distance exceeds the bytes written so far fails with the
\* underflow error and leaves the window as it was.
UnderflowRejected ==
    [][(last'.op = "self_copy" /\ last'.distance > Len(out))
          => (last'.err = "Underflow" /\ window' = window)]_vars

\* C28: after every write and every self_copy the write cursor lies in
\* 0..Capacity-1: it is back at 0 when it has reached the end of the array.
CursorWraps ==
    last.op \in {"write", "self_copy"} => window.write \in 0..(Capacity - 1)

(***************************************************************************)
(* Stored blocks and block headers, on the streams of Spec.                *)
(***************************************************************************)

\* C13: when the stream is one final stored block of k bytes, the caller that reads
\* until read returns 0 has been given exactly those k bytes, and the decoder has
\* taken the header, LEN, NLEN and exactly k bytes from the byte source.
RawBlockIdentity ==
    \A b \in ValidBlocks :
        (b.btype = 0 /\ source = Pack(EncodeBlock(b, TRUE, 0)) /\ ~direct /\ EndOfStream)
            => (out = b.bytes /\ ~failed /\ bitreader.reader = 5 + Len(b.bytes))

(***************************************************************************)
(* One block on its own.  The byte source holds `at` bits that an earlier  *)
(* block has used, then one block; the bit reader stands after those bits. *)
(* ParseHeader is from_bitreader, Decode is make_available on the block    *)
(* state it returned.  `expect` is the block that was laid out, `out` the  *)
(* decoded bytes the decoder holds for the caller.                         *)
(***************************************************************************)
HeaderBlocks ==
    { Stored(<<>>), Stored(<<97>>), Stored(<<97, 98, 99>>),
      BadStored(<<>>), BadStored(<<103>>),
      Fixed(<<Lit(97)>>), Fixed(<<Sym(286)>>), Fixed(<<Sym(287)>>),
      Fixed(<<Lit(97), Sym(286)>>), Fixed(<<Lit(98), Lit(97), Sym(287)>>),
      Dynamic(<<Lit(97)>>), Reserved }

BlockNoCall == [op |-> "none", n |-> 0, err |-> NoErr, val |-> 0, entry |-> 0]

BlockInit ==
    \E at \in 0..7, fill \in {0, 1}, block \in HeaderBlocks, bfinal \in BOOLEAN, junk \in Junk :
        /\ source = Pack([i \in 1..at |-> fill] \o EncodeBlock(block, bfinal, at))
        /\ bitreader = read_bits_32(BitReaderLSB_new, at).br
        /\ expect = [block |-> block, bfinal |-> bfinal, at |-> at]
        /\ state = [tag |-> "None"]
        /\ window = RingBuffer_new(junk)
        /\ available = 0
        /\ out = <<>>
        /\ last = BlockNoCall
        /\ failed = FALSE
        /\ direct = FALSE

\* from_bitreader; an Err carries no block state
ParseHeader ==
    LET parsed(r) ==
            /\ bitreader' = r.br
            /\ state' = IF r.err = NoErr THEN r.state ELSE state
            /\ failed' = (r.err # NoErr)
            /\ last' = [BlockNoCall EXCEPT !.op = "from_bitreader", !.err = r.err]
    IN  /\ last.op = "none"
        /\ parsed(from_bitreader(bitreader))
        /\ UNCHANGED <<source, expect, window, available, out, direct>>

Decode(n) ==
    LET returned(r) ==
            /\ bitreader' = r.d.bitreader
            /\ state' = r.d.state
            /\ window' = r.d.window
            /\ available' = r.d.available
            /\ out' = copy_out(r.d.window, r.d.available, r.d.available)
            /\ failed' = (failed \/ r.res = "Err")
            /\ last' = [op |-> "make_available", n |-> n, err |-> r.err, val |-> r.val,
                        entry |-> available]
    IN  /\ state.tag \in {"Uncompressed", "Huffman"}
        /\ returned(make_available(TheDecoder, n))
        /\ UNCHANGED <<source, expect, direct>>

BlockNext ==
    \/ ParseHeader
    \/ \E n \in 1..Capacity : Decode(n)

BlockSpec == BlockInit /\ [][BlockNext]_vars

\* the bit reader after `bits` bits of the stream: the bytes taken from the source
\* and the mask of the next bit
AfterBits(br, bits) == br.reader = (bits + 7) \div 8 /\ br.mask = Pow2(bits % 8)

\* C14: from_bitreader reads BFINAL, then the two bits of BTYPE, at the bit where
\* the block starts; BTYPE 0 gives the Uncompressed state, BTYPE 1 the Huffman
\* state with the fixed tables, BTYPE 2 the Huffman state with the tables the
\* block transmits, and BTYPE 3 the error InvalidBType and no block state.
HeaderDispatch ==
    LET b == expect.block
    IN  last.op = "from_bitreader" =>
          /\ b.btype = 0 =>
                \/ state.tag = "Uncompressed" /\ state.bfinal = expect.bfinal
                \/ b.nlen_xor # 0 /\ last.err = "NonMatchingLenNLen"
          /\ b.btype = 1 =>
                /\ state = Huffman(expect.bfinal, [kind |-> "fixed"])
                /\ AfterBits(bitreader, expect.at + 3)
          /\ b.btype = 2 =>
                /\ state.tag = "Huffman" /\ state.bfinal = expect.bfinal
                /\ state.tables.kind = "dynamic"
                /\ tree_of(state.tables).litlen_tree = from_codes(BlockCodes(b).litlen)
                /\ tree_of(state.tables).distance_tree = from_codes(BlockCodes(b).distance)
          /\ b.btype = 3 =>
                /\ last.err = "InvalidBType" /\ state.tag = "None"
                /\ AfterBits(bitreader, expect.at + 3)

\* from_bitreader has met BTYPE 3 in a header that lies across two bytes
ReservedBlockType ==
    /\ last.op = "from_bitreader" /\ last.err = "InvalidBType"
    /\ expect.block.btype = 3 /\ expect.at = 6 /\ bitreader.reader = 2

\* C15: for a stored block from_bitreader drops the rest of the current byte and
\* reads LEN and NLEN, two bytes each, low byte first; when LEN is not the
\* complement of NLEN it fails with NonMatchingLenNLen, with no block state, no
\* byte of the body taken from the source and none decoded.
StoredHeader ==
    LET b == expect.block
    IN  (last.op = "from_bitreader" /\ b.btype = 0) =>
          /\ bitreader.mask = 1
          /\ bitreader.reader = ((expect.at + 3 + 7) \div 8) + 4
          /\ IF b.nlen_xor # 0
             THEN /\ last.err = "NonMatchingLenNLen" /\ state.tag = "None"
                  /\ available = 0 /\ out = <<>>
             ELSE /\ last.err = NoErr
                  /\ state = Uncompressed(expect.bfinal, Len(b.bytes))

\* from_bitreader has refused a stored block that starts in the middle of a byte
LenNLenMismatch ==
    /\ last.op = "from_bitreader" /\ last.err = "NonMatchingLenNLen"
    /\ expect.at = 2 /\ Len(expect.block.bytes) = 1 /\ bitreader.reader = 5

\* C16: in a Huffman block whose symbols are literals and then 286 or 287, a
\* make_available that needs more bytes than the literals, on a decoder that has
\* not failed, returns InvalidLitLenCode; the decoder then holds the literals and
\* no byte more.
InvalidSymbolRejected ==
    [][(/\ last'.op = "make_available" /\ ~failed
        /\ expect.block.btype = 1
        /\ \E i \in 1..Len(expect.block.toks) : expect.block.toks[i].kind = "sym"
        /\ last'.n > Len(ExpandTokens(<<>>, expect.block.toks)))
          => /\ last'.err = "InvalidLitLenCode"
             /\ available' = Len(ExpandTokens(<<>>, expect.block.toks))
             /\ out' = ExpandTokens(<<>>, expect.block.toks)]_vars

\* make_available has met the symbol 287 after two literals
InvalidSymbolMet ==
    /\ last.op = "make_available" /\ last.err = "InvalidLitLenCode"
    /\ expect.block.toks = <<Lit(98), Lit(97), Sym(287)>>
    /\ available = 2 /\ out = <<98, 97>>

(***************************************************************************)
(* The code tables on their own.  A caller hands an array of code lengths  *)
(* to canonical_from_lengths and the codes it returns to from_codes.       *)
(* `expect` is the array and the first symbol, `state` the codes and then  *)
(* the tree.                                                               *)
(***************************************************************************)
MaxSyms == 4

MaxCodeLen == 3

FixedLitLenLengths ==
    [i \in 1..288 |-> IF i - 1 <= 143 THEN 8
                      ELSE IF i - 1 <= 255 THEN 9
                      ELSE IF i - 1 <= 279 THEN 7 ELSE 8]

FixedDistLengths == [i \in 1..32 |-> 5]

LengthArrays ==
    UNION { [1..n -> 0..MaxCodeLen] : n \in 0..MaxSyms }
        \cup {FixedLitLenLengths, FixedDistLengths}

CodeNoCall == [op |-> "none", panic |-> FALSE, err |-> NoErr]

CodeInit ==
    \E code_lengths \in LengthArrays, first_value \in {0, 257} :
        /\ expect = [code_lengths |-> code_lengths, first_value |-> first_value]
        /\ state = [tag |-> "None"]
        /\ last = CodeNoCall
        /\ source = <<>>
        /\ bitreader = BitReaderLSB_new
        /\ window = RingBuffer_new(0)
        /\ available = 0
        /\ out = <<>>
        /\ failed = FALSE
        /\ direct = FALSE

CanonicalFromLengths ==
    LET built(r) ==
            /\ state' = IF r.panic THEN state ELSE [tag |-> "Codes", codes |-> r.codes]
            /\ last' = [op |-> "canonical_from_lengths", panic |-> r.panic, err |-> NoErr]
    IN  /\ last.op = "none"
        /\ built(canonical_from_lengths(expect.first_value, expect.code_lengths))
        /\ UNCHANGED <<source, expect, bitreader, window, available, out, failed, direct>>

FromCodes ==
    LET built(t) ==
            /\ state' = [tag |-> "Tree", codes |-> state.codes, tree |-> t]
            /\ failed' = ~t.ok
    IN  /\ state.tag = "Codes"
        /\ built(from_codes(state.codes))
        /\ last' = [op |-> "from_codes", panic |-> FALSE, err |-> NoErr]
        /\ UNCHANGED <<source, expect, bitreader, window, available, out, direct>>

\* the slots of the scratch buffers hold any u32
ScratchJunk == [length_counts : Junk, next_code : Junk]

CanonicalKnownMax(junk) ==
    LET built(codes) ==
            /\ state' = [tag |-> "Codes", codes |-> codes]
            /\ last' = [op |-> "canonical_from_lengths_known_max", panic |-> FALSE,
                        err |-> NoErr]
    IN  /\ last.op = "none"
        /\ Len(expect.code_lengths) > 0
        /\ built(canonical_from_lengths_known_max(expect.first_value, expect.code_lengths,
                                                  SeqMax(expect.code_lengths), junk))
        /\ out' = <<junk.length_counts, junk.next_code>>
        /\ UNCHANGED <<source, expect, bitreader, window, available, failed, direct>>

\* The caller gives the tree a bit source that holds the bits of one code of the
\* list, first bit of the code first, or that source cut short by its last byte.
Feed(cut) ==
    LET fed(i, n) ==
            LET bytes == Pack(BitsMSB(CodeString_bits(state.codes[i].code) % Pow2(n), n))
            IN  /\ source' = IF cut THEN SubSeq(bytes, 1, Len(bytes) - 1) ELSE bytes
                /\ expect' = [code_lengths |-> expect.code_lengths,
                              first_value |-> expect.first_value, fed |-> i, cut |-> cut]
    IN  /\ last.op = "from_codes" /\ state.tree.ok
        /\ \E i \in 1..Len(state.codes) : fed(i, CodeString_len(state.codes[i].code))
        /\ bitreader' = BitReaderLSB_new
        /\ last' = [op |-> "feed", panic |-> FALSE, err |-> NoErr]
        /\ UNCHANGED <<state, window, available, out, failed, direct>>

ReadValue ==
    LET returned(r) ==
            /\ bitreader' = r.br
            /\ last' = [op |-> "read_value", panic |-> FALSE, err |-> r.err, val |-> r.val]
            /\ failed' = (r.err # NoErr)
    IN  /\ last.op = "feed"
        /\ returned(read_value(state.tree.node, bitreader))
        /\ UNCHANGED <<source, expect, state, window, available, out, direct>>

CodeNext ==
    \/ CanonicalFromLengths
    \/ FromCodes
    \/ \E junk \in ScratchJunk : CanonicalKnownMax(junk)
    \/ \E cut \in BOOLEAN : Feed(cut)
    \/ ReadValue

CodeSpec == CodeInit /\ [][CodeNext]_vars

\* C17: the codes canonical_from_lengths builds from the fixed literal/length
\* lengths are 8 bits from 00110000 for 0..143, 9 bits from 110010000 for
\* 144..255, 7 bits from 0000000 for 256..279 and 8 bits from 11000000 for
\* 280..287, and they are the table the decoder uses for BTYPE 1; the codes of
\* the 32 fixed distance symbols are the 5-bit values of the symbols, which is
\* also what canonical_from_lengths builds from 32 lengths of 5.
FixedTables ==
    (last.op = "canonical_from_lengths" /\ expect.first_value = 0) =>
        /\ expect.code_lengths = FixedLitLenLengths =>
              /\ Len(state.codes) = 288
              /\ \A v \in 0..287 :
                    /\ state.codes[v + 1].value = v
                    /\ CodeString_len(state.codes[v + 1].code)
                         = (IF v <= 143 THEN 8 ELSE IF v <= 255 THEN 9
                            ELSE IF v <= 279 THEN 7 ELSE 8)
                    /\ CodeString_bits(state.codes[v + 1].code)
                         = (IF v <= 143 THEN 48 + v
                            ELSE IF v <= 255 THEN 400 + (v - 144)
                            ELSE IF v <= 279 THEN v - 256
                            ELSE 192 + (v - 280))
              /\ state.codes = fixed_huffman_codes.litlen
        /\ expect.code_lengths = FixedDistLengths =>
              /\ Len(state.codes) = 32
              /\ \A v \in 0..31 :
                    /\ state.codes[v + 1].value = v
                    /\ CodeString_len(state.codes[v + 1].code) = 5
                    /\ CodeString_bits(state.codes[v + 1].code) = v
              /\ state.codes = fixed_huffman_codes.distance

\* the codes of the fixed literal/length lengths have been built
FixedLitLenBuilt ==
    /\ last.op = "canonical_from_lengths" /\ expect.first_value = 0
    /\ expect.code_lengths = FixedLitLenLengths
    /\ state.tag = "Codes" /\ Len(state.codes) = 288

\* C18: canonical_from_lengths returns one pair per entry of nonzero length, in
\* ascending symbol order; the code of an entry of length L has length L; the
\* first entry of each length L has the value the loop
\* code = (code + count[L-1]) << 1 reaches at L, count being the histogram of the
\* array, and each further entry of that length the value of the one before plus
\* 1; the L low bits of every code are the code RFC 1951 3.2.2 assigns.
CanonicalAssignment ==
    LET lengths == expect.code_lengths
        symbol(k) == state.codes[k].value - expect.first_value + 1
        bits(k) == CodeString_bits(state.codes[k].code)
        count(l) == Cardinality({i \in 1..Len(lengths) : lengths[i] = l})
        RECURSIVE First(_)
        First(l) == IF l = 0 THEN 0 ELSE 2 * (First(l - 1) + count(l - 1))
        RECURSIVE Rfc(_)
        Rfc(l) == IF l <= 1 THEN 0 ELSE 2 * (Rfc(l - 1) + count(l - 1))
        earlier(k) == {h \in 1..(k - 1) : lengths[symbol(h)] = lengths[symbol(k)]}
    IN  (last.op = "canonical_from_lengths" /\ ~last.panic) =>
          /\ Len(state.codes) = Cardinality({i \in 1..Len(lengths) : lengths[i] # 0})
          /\ \A k \in 1..Len(state.codes) :
                /\ symbol(k) \in 1..Len(lengths)
                /\ k > 1 => symbol(k - 1) < symbol(k)
                /\ lengths[symbol(k)] # 0
                /\ CodeString_len(state.codes[k].code) = lengths[symbol(k)]
                /\ earlier(k) = {} => bits(k) = First(lengths[symbol(k)])
                /\ \A h \in earlier(k) :
                      (\A g \in earlier(k) : g <= h) => bits(k) = bits(h) + 1
                /\ bits(k) % Pow2(lengths[symbol(k)])
                     = (Rfc(lengths[symbol(k)]) + Cardinality(earlier(k)))
                         % Pow2(lengths[symbol(k)])

\* codes have been built from an array with an unused symbol and two symbols of
\* one length
SharedLengthBuilt ==
    /\ last.op = "canonical_from_lengths"
    /\ expect.code_lengths = <<2, 0, 1, 2>> /\ expect.first_value = 257
    /\ state.tag = "Codes" /\ Len(state.codes) = 3

\* C19: in the codes canonical_from_lengths returns, for every array it accepts,
\* no code is a prefix of another; the bit string of a code is its L low bits,
\* first bit highest, as pop_bit_front takes them.
PrefixFree ==
    LET len(k) == CodeString_len(state.codes[k].code)
        pattern(k) == CodeString_bits(state.codes[k].code) % Pow2(len(k))
    IN  (last.op = "canonical_from_lengths" /\ ~last.panic) =>
          \A k, h \in 1..Len(state.codes) :
              (k # h /\ len(k) <= len(h))
                  => pattern(h) \div Pow2(len(h) - len(k)) # pattern(k)

(***************************************************************************)
(* One dynamic block on its own, with the code lengths it transmits drawn  *)
(* from bounded sets.  The header gives HLIT = 257, HDIST = 2 and          *)
(* HCLEN = 18; `clc` are the lengths of the code-length symbols 18, 0, 3,  *)
(* 2 and 1, `litlen` the lengths of the symbols 97, 98 and 256, `distance` *)
(* those of the distances 0 and 1; every other length is 0.                *)
(***************************************************************************)
TableLengths == 0..3

\* complete, incomplete, over-subscribed, empty
ClcLengths == { <<2, 3, 2, 2, 3>>, <<2, 3, 2, 2, 0>>, <<2, 3, 2, 2, 2>>, <<0, 0, 0, 0, 0>> }

\* the code of a code-length symbol under the complete code: 2 is 00, 3 is 01,
\* 18 is 10, 0 is 110, 1 is 111
LengthSymbol(v) ==
    IF v = 2 THEN <<0, 0>> ELSE IF v = 3 THEN <<0, 1>> ELSE IF v = 18 THEN <<1, 0>>
    ELSE IF v = 0 THEN <<1, 1, 0>> ELSE <<1, 1, 1>>

RECURSIVE EncodeClc(_, _)
EncodeClc(clc, i) ==
    IF i > 18 THEN <<>>
    ELSE BitsLSB(IF SWIZZLE[i] = 18 THEN clc[1] ELSE IF SWIZZLE[i] = 0 THEN clc[2]
                 ELSE IF SWIZZLE[i] = 3 THEN clc[3] ELSE IF SWIZZLE[i] = 2 THEN clc[4]
                 ELSE IF SWIZZLE[i] = 1 THEN clc[5] ELSE 0, 3)
         \o EncodeClc(clc, i + 1)

\* 18(86) a b 18(127) 18(8) e d0 d1
EncodeTables(clc, litlen, distance) ==
    BitsLSB(0, 5) \o BitsLSB(1, 5) \o BitsLSB(14, 4) \o EncodeClc(clc, 1)
    \o LengthSymbol(18) \o BitsLSB(86, 7)
    \o LengthSymbol(litlen[1]) \o LengthSymbol(litlen[2])
    \o LengthSymbol(18) \o BitsLSB(127, 7) \o LengthSymbol(18) \o BitsLSB(8, 7)
    \o LengthSymbol(litlen[3])
    \o LengthSymbol(distance[1]) \o LengthSymbol(distance[2])

\* the block's body: bits that some symbol of every complete code begins with
TableInit ==
    \E clc \in ClcLengths, litlen \in [1..3 -> TableLengths],
       distance \in [1..2 -> TableLengths], bfinal \in BOOLEAN :
        /\ source = Pack(<<IF bfinal THEN 1 ELSE 0>> \o BitsLSB(2, 2)
                         \o EncodeTables(clc, litlen, distance)
                         \o [i \in 1..16 |-> 0])
        /\ bitreader = BitReaderLSB_new
        /\ expect = [clc |-> clc, litlen |-> litlen, distance |-> distance,
                     bfinal |-> bfinal,
                     bits |-> 3 + Len(EncodeTables(clc, litlen, distance))]
        /\ state = [tag |-> "None"]
        /\ window = RingBuffer_new(0)
        /\ available = 0
        /\ out = <<>>
        /\ last = BlockNoCall
        /\ failed = FALSE
        /\ direct = FALSE

TableSpec == TableInit /\ [][BlockNext]_vars

\* C20: when the code-length code, the literal/length lengths or the distance
\* lengths of a dynamic block are incomplete, over-subscribed or all zero,
\* from_bitreader fails with BadHuffmanCodes: no block state exists, no bit of
\* the block's body has been read and no byte decoded.
BadTablesRejected ==
    LET weight(l) == IF l = 0 THEN 0 ELSE Pow2(15 - l)
        clc == expect.clc
        complete_clc == weight(clc[1]) + weight(clc[2]) + weight(clc[3])
                            + weight(clc[4]) + weight(clc[5]) = Pow2(15)
        complete_litlen == weight(expect.litlen[1]) + weight(expect.litlen[2])
                               + weight(expect.litlen[3]) = Pow2(15)
        complete_distance == weight(expect.distance[1]) + weight(expect.distance[2])
                                 = Pow2(15)
    IN  (last.op = "from_bitreader"
            /\ (~complete_clc \/ ~complete_litlen \/ ~complete_distance))
          => /\ last.err = "BadHuffmanCodes"
             /\ state.tag = "None"
             /\ available = 0 /\ out = <<>>
             /\ AfterBits(bitreader, IF complete_clc THEN expect.bits ELSE 71)

\* from_bitreader has refused a block whose literal/length code is incomplete
IncompleteLitLenRefused ==
    /\ last.op = "from_bitreader" /\ last.err = "BadHuffmanCodes"
    /\ expect.clc = <<2, 3, 2, 2, 3>>
    /\ expect.litlen = <<1, 0, 0>> /\ expect.distance = <<1, 1>>
    /\ state.tag = "None"

\* C21: from an array whose entries are 0 but for one, canonical_from_lengths
\* and then from_codes give a tree that is the single leaf of that one symbol.
SingletonSucceeds ==
    LET lengths == expect.code_lengths
        used == {i \in 1..Len(lengths) : lengths[i] # 0}
    IN  (last.op = "from_codes" /\ Cardinality(used) = 1) =>
          /\ state.tree.ok
          /\ \A i \in used : state.tree.node = Leaf(expect.first_value + i - 1)

CanonicalDeterminism ==
    last.op = "canonical_from_lengths_known_max" =>
        /\ \A junk \in ScratchJunk :
              canonical_from_lengths_known_max(expect.first_value, expect.code_lengths,
                                               SeqMax(expect.code_lengths), junk)
                  = state.codes
        /\ state.codes = canonical_from_lengths(expect.first_value, expect.code_lengths).codes

\* codes have been built in scratch buffers that held nonzero values
DirtyScratchUsed ==
    /\ last.op = "canonical_from_lengths_known_max" /\ out = <<255, 255>>
    /\ expect.code_lengths = <<2, 0, 1, 2>> /\ Len(state.codes) = 3

(***************************************************************************)
(* The bit reader on its own.  A caller reads some bits one at a time to   *)
(* reach a bit offset, then reads n more bits one at a time; read_bits_32  *)
(* is given the reader as it stood at that offset and the same n.          *)
(* `expect` is the reader at the offset and the number of bits before it,  *)
(* `out` the n bits read singly, `bitreader` the reader after them and     *)
(* `state` what read_bits_32 returned.                                     *)
(***************************************************************************)
\* read_bits_32 asserts count <= 32
MaxCount == 32

\* sources of enough bytes for MaxCount bits from any offset in a byte, and every
\* shorter one
BitInit ==
    \E bytes \in UNION { [1..n -> {171, 84}] : n \in 0..((MaxCount + 7) \div 8 + 1) } :
        /\ source = bytes
        /\ bitreader = BitReaderLSB_new
        /\ expect = [start |-> BitReaderLSB_new, at |-> 0]
        /\ out = <<>>
        /\ state = [tag |-> "None"]
        /\ last = [op |-> "none", err |-> NoErr, val |-> 0]
        /\ window = RingBuffer_new(0)
        /\ available = 0
        /\ failed = FALSE
        /\ direct = FALSE

\* a read_bit before the offset
SkipBit ==
    LET skipped(r) ==
            /\ r.err = NoErr
            /\ bitreader' = r.br
            /\ expect' = [start |-> r.br, at |-> expect.at + 1]
    IN  /\ last.op = "none" /\ out = <<>>
        /\ expect.at < 7
        /\ skipped(read_bit(bitreader))
        /\ UNCHANGED <<source, state, window, available, out, last, failed, direct>>

\* a read_bit from the offset on.  The value of the bits stays below 2^31, so the
\* 32nd bit is read where it is 0.
ReadBit ==
    LET taken(r) ==
            /\ r.err # NoErr \/ Len(out) < MaxCount - 1 \/ r.val = 0
            /\ bitreader' = r.br
            /\ out' = IF r.err = NoErr THEN Append(out, r.val) ELSE out
            /\ failed' = (r.err # NoErr)
            /\ last' = [op |-> "read_bit", err |-> r.err, val |-> r.val]
    IN  /\ last.op \in {"none", "read_bit"} /\ ~failed
        /\ Len(out) < MaxCount
        /\ taken(read_bit(bitreader))
        /\ UNCHANGED <<source, expect, state, window, available, direct>>

\* read_bits_32 from the offset, for as many bits as were read singly
ReadBits32 ==
    LET taken(r) ==
            /\ state' = [tag |-> "Bits", br |-> r.br]
            /\ last' = [op |-> "read_bits_32", err |-> r.err, val |-> r.val]
    IN  /\ last.op \in {"none", "read_bit"} /\ ~failed
        /\ taken(read_bits_32(expect.start, Len(out)))
        /\ UNCHANGED <<source, expect, bitreader, window, available, out, failed, direct>>

BitNext ==
    \/ SkipBit
    \/ ReadBit
    \/ ReadBits32

BitSpec == BitInit /\ [][BitNext]_vars

\* C24: the bits read singly are the bits of the source bytes, least significant
\* first; read_bits_32(n) from the same offset succeeds, returns those n bits with
\* the first bit lowest, and leaves the reader where the n read_bit calls left it
\* (same byte position, same mask and, inside a byte, the same buffered byte).
BitOrder ==
    LET SourceBit(i) == (source[i \div 8 + 1] \div Pow2(i % 8)) % 2
        RECURSIVE Value(_)
        Value(i) == IF i = 0 THEN 0
                    ELSE Value(i - 1) + (IF out[i] = 1 THEN Pow2(i - 1) ELSE 0)
    IN  /\ \A i \in 1..Len(out) : out[i] = SourceBit(expect.at + i - 1)
        /\ last.op = "read_bits_32" =>
              /\ last.err = NoErr
              /\ last.val = Value(Len(out))
              /\ state.br.reader = bitreader.reader
              /\ state.br.mask = bitreader.mask
              /\ bitreader.mask # 1 => state.br.buffer = bitreader.buffer

\* read_bits_32 has read, from inside a byte, the rest of it, whole bytes and the
\* first bits of one more
AcrossBytes ==
    /\ last.op = "read_bits_32" /\ last.err = NoErr
    /\ expect.at = 3 /\ Len(out) = 32
    /\ state.br.reader = 5 /\ state.br.mask = 8

\* C25: in every iteration of make_available's loop the block the decoder is in
\* (its variant, BFINAL and code tables) stays the same unless the block signals
\* completion: the uncompressed counter reaches zero, or the symbol 256 is decoded.
\* On completion the state becomes Complete if the block's BFINAL was true and
\* otherwise the state from_bitreader parses at once from the next header.  A
\* Complete decoder keeps its state and its place in the source in every call.
BlockTransitions ==
    LET Block(st) ==
            IF st.tag = "Huffman" THEN <<st.tag, st.bfinal, st.tables>>
            ELSE IF st.tag = "Uncompressed" THEN <<st.tag, st.bfinal>>
            ELSE <<st.tag>>
        \* what the block reads in the iteration: raw bytes, a symbol, or nothing
        taken(d) ==
            IF d.state.tag = "Uncompressed"
            THEN io_copy(d.bitreader, d.window,
                         Min(d.state.uncompressed, Capacity - d.available))
            ELSE IF d.state.copy_len = 0
            THEN read_value(tree_of(d.state.tables).litlen_tree.node, d.bitreader)
            ELSE [err |-> NoErr, br |-> d.bitreader, val |-> 0]
        signalled(d, t) ==
            /\ t.err = NoErr
            /\ IF d.state.tag = "Uncompressed"
               THEN d.state.uncompressed <= Capacity - d.available
               ELSE d.state.copy_len = 0 /\ t.val = 256
        entered(d, s, h) ==
            IF h.err # NoErr THEN s.err = h.err /\ Block(s.d.state) = Block(d.state)
            ELSE s.err = NoErr /\ s.d.state = h.state /\ s.d.bitreader = h.br
        step(d, s, t) ==
            IF ~signalled(d, t) THEN Block(s.d.state) = Block(d.state)
            ELSE IF d.state.bfinal THEN s.err = NoErr /\ s.d.state = Complete
            ELSE entered(d, s, from_bitreader(t.br))
        RECURSIVE Walk(_, _)
        Walk(d, required) ==
            LET checked(s) ==
                    step(d, s, taken(d)) /\ (s.err = NoErr => Walk(s.d, required))
            IN  (required > d.available /\ d.state.tag # "Complete")
                    => checked(iteration(d, required))
        kept(r) == r.d.state = state /\ r.d.bitreader = bitreader
    IN  /\ state.tag \in {"Uncompressed", "Huffman"} =>
              \A required \in 1..Capacity : Walk(TheDecoder, required)
        /\ state.tag = "Complete" =>
              /\ \A n \in 0..MaxBuf : kept(read(TheDecoder, n))
              /\ \A required \in 0..Capacity : kept(make_available(TheDecoder, required))

\* a block that was not the last has completed and the header after it has been
\* parsed: the decoder is in the final fixed block that follows a stored block
NextBlockEntered ==
    /\ last.op = "make_available" /\ last.res = "Ok"
    /\ expect.valid /\ expect.orig = <<97, 98, 99, 99, 99, 99>>
    /\ last.entry = 2 /\ last.n = 3 /\ available = 3
    /\ state.tag = "Huffman" /\ state.bfinal /\ state.tables.kind = "fixed"

(***************************************************************************)
(* One back-reference.  The source is a final block with the fixed tables  *)
(* that holds one length symbol, its extra bits, one distance symbol, its  *)
(* extra bits, and the end-of-block symbol.  `expect` is what was encoded  *)
(* and the number of bits up to the end-of-block symbol.                   *)
(***************************************************************************)
PairInit ==
    LET Extras(n) == {0, 1, Pow2(n) - 1} \cap (0..(Pow2(n) - 1))
        length(l, lx) ==
            CodeOf(fixed_huffman_codes.litlen, 257 + l) \o BitsLSB(lx, LENGTH_EXTRA[l + 1])
        distance(k, dx) ==
            CodeOf(fixed_huffman_codes.distance, k) \o BitsLSB(dx, DIST_EXTRA[k + 1])
        encoded(l, lx, k, dx, pair) ==
            /\ source = Pack(<<1>> \o BitsLSB(1, 2) \o pair
                             \o CodeOf(fixed_huffman_codes.litlen, 256))
            /\ expect = [len_code |-> l, len_extra |-> lx, dist_code |-> k,
                         dist_extra |-> dx, bits |-> 3 + Len(pair)]
    IN  \E l \in 0..28, k \in 0..31, junk \in Junk :
          \E lx \in Extras(LENGTH_EXTRA[l + 1]), dx \in Extras(DIST_EXTRA[k + 1]) :
            /\ encoded(l, lx, k, dx, length(l, lx) \o distance(k, dx))
            /\ bitreader = BitReaderLSB_new
            /\ state = [tag |-> "None"]
            /\ window = RingBuffer_new(junk)
            /\ available = 0
            /\ out = <<>>
            /\ last = BlockNoCall
            /\ failed = FALSE
            /\ direct = FALSE

PairSpec == PairInit /\ [][BlockNext]_vars

\* C26: the decoder reads the extra bits of the length symbol, then the distance
\* symbol, then its extra bits: for every length symbol and every distance symbol
\* 0..29 the length it keeps is LENGTH_BASE plus the extra bits, the distance is
\* DIST_BASE plus the extra bits, the reader stands behind the pair, and
\* 3 <= len <= 258 and 1 <= dist <= 32768.
PairDecoded ==
    LET len  == state.copy_len + available
        dist == state.distance
    IN  (last.op = "make_available" /\ state.tag = "Huffman" /\ expect.dist_code <= 29) =>
          /\ len = LENGTH_BASE[expect.len_code + 1] + expect.len_extra
          /\ dist = DIST_BASE[expect.dist_code + 1] + expect.dist_extra
          /\ AfterBits(bitreader, expect.bits)
          /\ 3 <= len /\ len <= 258
          /\ 1 <= dist /\ dist <= 32768

\* the longest length with extra bits and the farthest distance have been decoded
LongestPair ==
    /\ last.op = "make_available" /\ state.tag = "Huffman"
    /\ expect.len_code = 27 /\ expect.len_extra = 31
    /\ expect.dist_code = 29 /\ expect.dist_extra = 8191
    /\ state.copy_len = 258 /\ state.distance = 32768

\* C27: when the distance tree decodes the symbol 30 or 31 no call fails, the
\* reader stands right behind the five bits of the symbol (no extra bits are
\* read), the distance kept is 0, and the copy is performed: the bytes become
\* available, the write cursor moves on by them, and the window's bytes stay as
\* they were, each one copied onto itself.  A call makes available what it was
\* asked for, up to the length of the copy.
ReservedDistanceAccepted ==
    LET l     == expect.len_code
        len   == LENGTH_BASE[l + 1] + expect.len_extra
        after == 3 + (IF 257 + l <= 279 THEN 7 ELSE 8) + LENGTH_EXTRA[l + 1] + 5
    IN  (last.op = "make_available" /\ expect.dist_code \in {30, 31}) =>
          /\ last.err = NoErr /\ ~failed
          /\ available = IF last.n > last.entry THEN Min(len, last.n) ELSE last.entry
          /\ available > 0
          /\ window.write = available % Capacity
          /\ \A i \in 0..(Capacity - 1) : window.data[i] \in Junk /\ window.data[i] = window.data[0]
          /\ state.tag \in {"Huffman", "Complete"}
          /\ state.tag = "Huffman" =>
                /\ state.distance = 0
                /\ state.copy_len = len - available
                /\ AfterBits(bitreader, after)
          /\ state.tag = "Complete" => available = len /\ AfterBits(bitreader, after + 7)

\* the distance symbol 31 has been decoded and part of the copy made
ReservedDistanceMet ==
    /\ last.op = "make_available" /\ last.n = 2 /\ last.err = NoErr
    /\ expect.dist_code = 31 /\ expect.len_code = 28
    /\ state.tag = "Huffman" /\ state.distance = 0 /\ state.copy_len = 256
    /\ available = 2

\* C29: from_codes returns an error exactly when some partition step, which is
\* the list of the codes that begin with one bit string p, is empty, or holds more
\* than one code and one that ends at p, or holds a single code that goes on
\* beyond p; otherwise it returns a tree.
TreeErrors ==
    LET codes == state.codes
        n(i) == CodeString_len(codes[i].code)
        bit(i, k) == (CodeString_bits(codes[i].code) \div Pow2(n(i) - k)) % 2
        RECURSIVE Bad(_, _)
        Bad(depth, S) ==
            LET child(b) == {i \in S : bit(i, depth + 1) = b}
            IN  \/ S = {}
                \/ Cardinality(S) = 1 /\ \E i \in S : n(i) > depth
                \/ /\ Cardinality(S) > 1
                   /\ \/ \E i \in S : n(i) = depth
                      \/ Bad(depth + 1, child(0))
                      \/ Bad(depth + 1, child(1))
    IN  last.op = "from_codes" =>
          /\ state.tree.ok = ~Bad(0, 1..Len(codes))
          /\ failed = ~state.tree.ok

\* from_codes has refused a list in which a single code is left with bits to go
SuperfluousBits ==
    /\ last.op = "from_codes" /\ ~state.tree.ok
    /\ expect.code_lengths = <<1, 2>> /\ Len(state.codes) = 2

\* C30: in a tree from_codes has built, the bits of a code of the list, first bit
\* first, lead from the root to the leaf of its symbol, to the first child on 0
\* and to the second on 1, and to no leaf before the last bit; read_value fed
\* those bits returns the symbol and has taken exactly that many bits.  When the
\* bit source ends before the code does, read_value returns the source's error.
TreeDecodes ==
    LET c == state.codes[expect.fed]
        n == CodeString_len(c.code)
        bit(k) == (CodeString_bits(c.code) \div Pow2(n - k)) % 2
        RECURSIVE At(_)
        At(k) == IF k = 0 THEN state.tree.node
                 ELSE IF bit(k) = 0 THEN At(k - 1).child_0 ELSE At(k - 1).child_1
    IN  last.op = "read_value" =>
          /\ \A k \in 0..(n - 1) : ~At(k).leaf
          /\ At(n) = Leaf(c.value)
          /\ ~expect.cut => /\ last.err = NoErr
                            /\ last.val = c.value
                            /\ AfterBits(bitreader, n)
          /\ expect.cut => /\ last.err = "UnexpectedEof"
                           /\ bitreader.reader = Len(source)

\* read_value has decoded the symbol of a code of three bits
ThreeBitsDecoded ==
    /\ last.op = "read_value" /\ last.err = NoErr /\ last.val = 3
    /\ expect.code_lengths = <<1, 2, 3, 3>> /\ expect.first_value = 0 /\ expect.fed = 4
    /\ source = <<255>>

(***************************************************************************)
(* The header of a dynamic block on its own.  The source holds HLIT, HDIST *)
(* and HCLEN, the 3-bit lengths `vals` of the code-length code in the      *)
(* order they are transmitted, and the code-length symbols `tokens` with   *)
(* their extra bits; `tokens` end exactly at HLIT + HDIST entries, or run  *)
(* past them with a repeat of a nonzero length ("copy") or of zeros        *)
(* ("skip").  `expect` is what was encoded.                                *)
(***************************************************************************)
DynInit ==
    LET T(sym, arg) == [sym |-> sym, arg |-> arg]
        Patterns ==
            { <<2, 2, 2, 2>>,
              <<2, 3, 2, 2, 0, 0, 0, 0, 0, 0, 0, 0, 0, 3>>,
              <<3, 3, 3, 3, 0, 0, 0, 0, 0, 0, 0, 0, 0, 3, 0, 3, 0, 3, 3>>,
              <<1, 0, 0, 0, 7>> }
        Heads ==
            { <<>>, <<T(16, 0)>>, <<T(0, 0), T(16, 1)>>,
              <<T(3, 0), T(16, 0)>>, <<T(3, 0), T(16, 3)>>,
              <<T(3, 0), T(17, 7), T(16, 0)>>, <<T(3, 0), T(18, 0), T(16, 2)>>,
              <<T(15, 0), T(1, 0), T(2, 0), T(16, 3)>> }
        slots(vals) ==
            [s \in 1..19 |->
                LET at == {i \in 1..Len(vals) : SWIZZLE[i] = s - 1}
                IN  IF at = {} THEN 0 ELSE vals[CHOOSE i \in at : TRUE]]
        RECURSIVE Entries(_)
        Entries(tokens) ==
            IF Len(tokens) = 0 THEN 0
            ELSE Entries(Tail(tokens))
                 + (IF Head(tokens).sym <= 15 THEN 1
                    ELSE IF Head(tokens).sym = 18 THEN Head(tokens).arg + 11
                    ELSE Head(tokens).arg + 3)
        RECURSIVE Fill(_)
        Fill(rem) ==
            IF rem = 0 THEN <<>>
            ELSE IF rem >= 138 THEN <<T(18, 127)>> \o Fill(rem - 138)
            ELSE IF rem >= 11 THEN <<T(18, rem - 11)>>
            ELSE IF rem >= 3 THEN <<T(17, rem - 3)>>
            ELSE <<T(0, 0)>> \o Fill(rem - 1)
        Program(head, over, total) ==
            IF over = "copy"
            THEN head \o Fill(total - 2 - Entries(head)) \o <<T(3, 0), T(16, 0)>>
            ELSE IF over = "skip"
            THEN head \o Fill(total - 1 - Entries(head)) \o <<T(17, 0)>>
            ELSE head \o Fill(total - Entries(head))
        RECURSIVE Encode(_, _)
        Encode(codes, tokens) ==
            IF Len(tokens) = 0 THEN <<>>
            ELSE CodeOf(codes, Head(tokens).sym)
                 \o BitsLSB(Head(tokens).arg,
                            IF Head(tokens).sym = 16 THEN 2
                            ELSE IF Head(tokens).sym = 17 THEN 3
                            ELSE IF Head(tokens).sym = 18 THEN 7 ELSE 0)
                 \o Encode(codes, Tail(tokens))
        RECURSIVE EncodeVals(_)
        EncodeVals(vals) ==
            IF Len(vals) = 0 THEN <<>> ELSE BitsLSB(Head(vals), 3) \o EncodeVals(Tail(vals))
        usable(vals, tokens) ==
            \A k \in 1..Len(tokens) : slots(vals)[tokens[k].sym + 1] # 0
        started(hlit, hdist, vals, tokens, bits) ==
            /\ source = Pack(bits)
            /\ expect = [hlit |-> hlit, hdist |-> hdist, vals |-> vals, tokens |-> tokens,
                         bits |-> Len(bits)]
    IN  \E hlit \in {0, 2, 31}, hdist \in {0, 1, 31}, vals \in Patterns,
           head \in Heads, over \in {"none", "copy", "skip"} :
          \E tokens \in {Program(head, over, hlit + 257 + hdist + 1)} :
            /\ IF vals = <<1, 0, 0, 0, 7>> THEN head = <<>> /\ over = "none"
               ELSE usable(vals, tokens)
            /\ started(hlit, hdist, vals, tokens,
                       BitsLSB(hlit, 5) \o BitsLSB(hdist, 5) \o BitsLSB(Len(vals) - 4, 4)
                       \o EncodeVals(vals)
                       \o (IF vals = <<1, 0, 0, 0, 7>> THEN <<>>
                           ELSE Encode(canonical_from_lengths(0, slots(vals)).codes, tokens)))
            /\ bitreader = BitReaderLSB_new
            /\ state = [tag |-> "None"]
            /\ last = [op |-> "none", err |-> NoErr]
            /\ window = RingBuffer_new(0)
            /\ available = 0
            /\ out = <<>>
            /\ failed = FALSE
            /\ direct = FALSE

DynamicHuffmanCodes ==
    LET returned(r) ==
            /\ bitreader' = r.br
            /\ state' = [tag |-> "Codes", codes |-> r.codes]
            /\ last' = [op |-> "dynamic_huffman_codes", err |-> r.err, locals |-> r.locals]
            /\ failed' = (r.err # NoErr)
    IN  /\ last.op = "none"
        /\ returned(dynamic_huffman_codes(bitreader))
        /\ UNCHANGED <<source, expect, window, available, out, direct>>

DynSpec == DynInit /\ [][DynamicHuffmanCodes]_vars

\* C31 as claimed: HLIT is 257 plus the first 5 bits of the header, HDIST 1 plus
\* the next 5 bits, and HCLEN 4 plus the 5 bits after those.
HeaderCountsFiveBits ==
    LET SourceBit(i) == (source[i \div 8 + 1] \div Pow2(i % 8)) % 2
        Field(from, n) == LET RECURSIVE V(_)
                              V(k) == IF k = n THEN 0 ELSE SourceBit(from + k) + 2 * V(k + 1)
                          IN  V(0)
    IN  last.op = "dynamic_huffman_codes" =>
          /\ last.locals.hlit = Field(0, 5) + 257
          /\ last.locals.hdist = Field(5, 5) + 1
          /\ last.locals.hclen = Field(10, 5) + 4

\* C31 as amended: HLIT is 257 plus the first 5 bits of the header, HDIST 1 plus
\* the next 5 bits, and HCLEN 4 plus the 4 bits after those.
HeaderCounts ==
    LET SourceBit(i) == (source[i \div 8 + 1] \div Pow2(i % 8)) % 2
        Field(from, n) == LET RECURSIVE V(_)
                              V(k) == IF k = n THEN 0 ELSE SourceBit(from + k) + 2 * V(k + 1)
                          IN  V(0)
    IN  last.op = "dynamic_huffman_codes" =>
          /\ last.locals.hlit = Field(0, 5) + 257
          /\ last.locals.hdist = Field(5, 5) + 1
          /\ last.locals.hclen = Field(10, 4) + 4

\* the three counts have been read from a header whose fifteenth bit is 1
CountsRead ==
    /\ last.op = "dynamic_huffman_codes" /\ last.err = NoErr
    /\ expect.hlit = 31 /\ expect.hdist = 1 /\ Len(expect.vals) = 19
    /\ last.locals.hlit = 288 /\ last.locals.hdist = 2 /\ last.locals.hclen = 19

\* C32: HCLEN is 4 plus the 4 bits that follow HLIT and HDIST, so it lies in
\* 4..19; exactly HCLEN values of 3 bits are read after the 14 bits of the counts,
\* into an array of 19 slots.
HclenWidth ==
    last.op = "dynamic_huffman_codes" =>
      /\ last.locals.hclen \in 4..19
      /\ last.locals.hclen = Len(expect.vals)
      /\ Len(last.locals.code_length_lengths) = 19
      /\ last.locals.code_lengths = <<>> =>
            /\ last.err = "BadHuffmanCodes"
            /\ AfterBits(bitreader, 14 + 3 * last.locals.hclen)
      /\ last.err = NoErr => AfterBits(bitreader, expect.bits)

\* a header with HCLEN = 5 has been refused right after its five 3-bit values
FiveLengthsRead ==
    /\ last.op = "dynamic_huffman_codes" /\ last.err = "BadHuffmanCodes"
    /\ expect.vals = <<1, 0, 0, 0, 7>> /\ last.locals.hclen = 5
    /\ bitreader.reader = 4 /\ bitreader.mask = 32

\* C33: the i-th 3-bit value read is stored in slot ORDER[i] of the 19 slots,
\* ORDER = 16 17 18 0 8 7 9 6 10 5 11 4 12 3 13 2 14 1 15, and every slot that
\* the first HCLEN entries of ORDER do not name is 0.
Deinterleaved ==
    LET ORDER == <<16, 17, 18, 0, 8, 7, 9, 6, 10, 5, 11, 4, 12, 3, 13, 2, 14, 1, 15>>
        slots == last.locals.code_length_lengths
        hclen == last.locals.hclen
    IN  last.op = "dynamic_huffman_codes" =>
          /\ \A i \in 1..hclen : slots[ORDER[i] + 1] = expect.vals[i]
          /\ \A s \in 0..18 : (\A i \in 1..hclen : ORDER[i] # s) => slots[s + 1] = 0

\* fourteen values have been stored: the last in slot 3, none in slot 1
FourteenStored ==
    /\ last.op = "dynamic_huffman_codes" /\ last.locals.hclen = 14
    /\ last.locals.code_length_lengths
           = <<2, 0, 0, 3, 0, 0, 0, 0, 0, 0, 0, 0, 0, 0, 0, 0, 2, 3, 2>>

\* C34: the code-length symbols expand to the lengths array as follows: a symbol
\* 0..15 adds that length; 16 adds the length of the entry before it (2-bit
\* value)+3 times; 17 adds (3-bit value)+3 zeros; 18 adds (7-bit value)+11 zeros.
\* The literal/length codes are the canonical codes of the first HLIT entries and
\* the distance codes those of the entries from HLIT on.  BadHuffmanCodes is
\* returned only for a code-length tree that cannot be built: the 19 symbols of
\* the tree are all among 0..18.
RunLengthExpansion ==
    LET RECURSIVE Unroll(_, _)
        Unroll(tokens, done) ==
            IF Len(tokens) = 0 THEN done
            ELSE LET t == Head(tokens)
                     before == IF Len(done) = 0 THEN 0 ELSE done[Len(done)]
                 IN  Unroll(Tail(tokens),
                            done \o (IF t.sym <= 15 THEN <<t.sym>>
                                     ELSE IF t.sym = 16 THEN [k \in 1..(t.arg + 3) |-> before]
                                     ELSE IF t.sym = 17 THEN [k \in 1..(t.arg + 3) |-> 0]
                                     ELSE [k \in 1..(t.arg + 11) |-> 0]))
        same(lengths, e) ==
            \A j \in 1..320 : lengths[j] = (IF j <= Len(e) THEN e[j] ELSE 0)
        split(lengths, hlit) ==
            /\ state.codes.litlen = canonical_from_lengths(0, SubSeq(lengths, 1, hlit)).codes
            /\ state.codes.distance
                   = canonical_from_lengths(0, SubSeq(lengths, hlit + 1, 320)).codes
    IN  last.op = "dynamic_huffman_codes" =>
          /\ last.err = NoErr =>
                /\ same(last.locals.code_lengths, Unroll(expect.tokens, <<>>))
                /\ split(last.locals.code_lengths, last.locals.hlit)
          /\ last.err = "BadHuffmanCodes" => last.locals.code_lengths = <<>>

\* a length 3 followed by symbol 16 with the value 3 has given seven entries of 3
SixMoreThrees ==
    /\ last.op = "dynamic_huffman_codes" /\ last.err = NoErr
    /\ expect.tokens[1] = [sym |-> 3, arg |-> 0] /\ expect.tokens[2] = [sym |-> 16, arg |-> 3]
    /\ SubSeq(last.locals.code_lengths, 1, 8) = <<3, 3, 3, 3, 3, 3, 3, 0>>
    /\ \E c \in 1..Len(state.codes.litlen) : state.codes.litlen[c].value = 6

\* C38: the code lengths of a dynamic block are decoded without a write outside
\* the 320 entries, no entry at or after HLIT + HDIST is written, and no distance
\* symbol at or above HDIST receives a code.
LengthsWithinDeclared ==
    last.op = "dynamic_huffman_codes" =>
      /\ last.err # "Panic"
      /\ last.err = NoErr =>
            /\ \A j \in (last.locals.hlit + last.locals.hdist + 1)..320 :
                   last.locals.code_lengths[j] = 0
            /\ \A c \in 1..Len(state.codes.distance) :
                   state.codes.distance[c].value < last.locals.hdist

\* C35: a read call that returns Ok returns the number of bytes it has stored in
\* the caller's buffer, whatever the number of chunks the buffer is served in.
ReadReturnsCopied ==
    (last.op = "read" /\ last.res = "Ok") => last.val = last.copied

\* C36: available stays within 0..Capacity; every iteration of make_available's
\* loop raises it by the number of bytes the iteration has written to the window
\* (the advance of the write cursor), and leaves in place the bytes that are
\* available and not yet copied out (the `available` bytes before the cursor).
AvailableAccounting ==
    LET pos(w, k) == ((w.write % Capacity) + Capacity - k) % Capacity
        counted(d, s) ==
            (s.d.window.write - d.window.write + 2 * Capacity) % Capacity
                = (s.d.available - d.available) % Capacity
        kept(d, s) ==
            \A k \in 1..d.available :
                s.d.window.data[pos(d.window, k)] = d.window.data[pos(d.window, k)]
        step(d, s) ==
            /\ s.d.available \in d.available..Capacity
            /\ counted(d, s)
            /\ kept(d, s)
        RECURSIVE Walk(_, _)
        Walk(d, required) ==
            LET checked(s) == s.err = NoErr => (step(d, s) /\ Walk(s.d, required))
            IN  (required > d.available /\ d.state.tag # "Complete")
                    => checked(iteration(d, required))
    IN  /\ available \in 0..Capacity
        /\ state.tag \in {"Uncompressed", "Huffman"} =>
              \A required \in 1..Capacity : Walk(TheDecoder, required)

\* C37: while a Huffman block has copy_len > 0, an iteration of make_available's
\* loop reads nothing from the source and keeps the distance; it appends
\* m = min(copy_len, bytes still required) bytes to the window, adds m to
\* available and takes m from copy_len.
BackReferenceResumes ==
    LET pending(d) == d.state.tag = "Huffman" /\ d.state.copy_len > 0
        resumed(d, s, m) ==
            /\ s.d.bitreader = d.bitreader
            /\ s.d.state.tag = "Huffman"
            /\ s.d.state.distance = d.state.distance
            /\ s.d.state.copy_len = d.state.copy_len - m
            /\ s.d.available = d.available + m
            /\ (s.d.window.write - d.window.write + 2 * Capacity) % Capacity = m % Capacity
        RECURSIVE Walk(_, _)
        Walk(d, required) ==
            LET checked(s) ==
                    s.err = NoErr =>
                        /\ pending(d) =>
                               resumed(d, s, Min(d.state.copy_len, required - d.available))
                        /\ Walk(s.d, required)
            IN  (required > d.available /\ d.state.tag # "Complete")
                    => checked(iteration(d, required))
    IN  state.tag \in {"Uncompressed", "Huffman"} =>
            \A required \in 1..Capacity : Walk(TheDecoder, required)

(***************************************************************************)
(* make_available's loop, one iteration at a time.  LoopNew builds the     *)
(* decoder on its stream.  Enter is read called with a buffer of n bytes,  *)
(* n within the window, at its call of make_available(n); Iterate is one   *)
(* pass of the body of `while required > self.available`, which returns    *)
(* the error of a `?`; Return is the end of the loop (its condition false, *)
(* or the break of the Complete arm) and read's copy of the bytes to the   *)
(* caller.  The loop runs on its own, so Iterate and Return are fair.      *)
(***************************************************************************)
LoopNew ==
    LET built(n) ==
            /\ n.err = NoErr
            /\ bitreader' = n.d.bitreader
            /\ state' = n.d.state
            /\ window' = n.d.window
            /\ available' = n.d.available
    IN  /\ state.tag = "None"
        /\ built(DeflateDecompressor_new(window.data[0]))
        /\ last' = [NoCall EXCEPT !.op = "new"]
        /\ UNCHANGED <<source, expect, out, failed, direct>>

Enter(n) ==
    /\ last.op \in {"new", "return"}
    /\ last' = [NoCall EXCEPT !.op = "enter", !.n = n, !.entry = available]
    /\ UNCHANGED <<source, expect, bitreader, state, window, available, out, failed, direct>>

Iterate ==
    LET left(s) ==
            /\ bitreader' = s.d.bitreader
            /\ state' = s.d.state
            /\ window' = s.d.window
            /\ available' = s.d.available
            /\ failed' = (failed \/ s.err # NoErr)
            /\ last' = IF s.err # NoErr
                       THEN [last EXCEPT !.op = "return", !.res = ResOf(s.err), !.err = s.err]
                       ELSE [last EXCEPT !.op = "iteration"]
    IN  /\ last.op \in {"enter", "iteration"}
        /\ last.n > available /\ state.tag # "Complete"
        /\ left(iteration(TheDecoder, last.n))
        /\ UNCHANGED <<source, expect, out, direct>>

Return ==
    LET to_read == Min(available, last.n)
    IN  /\ last.op \in {"enter", "iteration"}
        /\ ~(last.n > available /\ state.tag # "Complete")
        /\ out' = out \o copy_out(window, to_read, available)
        /\ available' = available - to_read
        /\ last' = [last EXCEPT !.op = "return", !.val = to_read, !.copied = to_read]
        /\ UNCHANGED <<source, expect, bitreader, state, window, failed, direct>>

LoopNext ==
    \/ LoopNew
    \/ \E n \in 0..Capacity : Enter(n)
    \/ Iterate
    \/ Return

\* Weak fairness of Return and of Iterate.  For Iterate the formula of WF is
\* written out with the guard of Iterate for ENABLED <<Iterate>>_vars: a pass that
\* does not return moves the decoder on (the first part of C39), so that Iterate
\* can take a step that is not a stuttering step wherever its guard holds.
LoopSpec ==
    /\ Init /\ [][LoopNext]_vars
    /\ WF_vars(Return)
    /\ \/ []<>~(/\ last.op \in {"enter", "iteration"}
                 /\ last.n > available /\ state.tag # "Complete")
       \/ []<><<Iterate>>_vars

\* C39: every call of make_available(n), n within the window, returns: each
\* iteration of its loop that does not return an error takes at least one bit
\* from the source, or makes at least one more byte available, or leaves the
\* decoder Complete; an iteration that decodes a symbol from the literal/length
\* tree of the block takes at least one bit.
LoopTerminates ==
    /\ [][LET Bits(br) ==
                  IF br.mask = 1 THEN 8 * br.reader
                  ELSE 8 * (br.reader - 1) + (CHOOSE k \in 1..7 : Pow2(k) = br.mask)
          IN  (last.op \in {"enter", "iteration"} /\ last'.op = "iteration") =>
                /\ \/ Bits(bitreader') > Bits(bitreader)
                   \/ available' > available
                   \/ state'.tag = "Complete"
                /\ (state.tag = "Huffman" /\ state.copy_len = 0)
                       => Bits(bitreader') > Bits(bitreader)]_vars
    /\ [](last.op \in {"enter", "iteration"} => <>(last.op = "return"))

\* a call has returned after the decoder went through a stream longer than the
\* window, to its end
LongStreamDone ==
    /\ last.op = "return" /\ last.res = "Ok" /\ last.entry > 0
    /\ state.tag = "Complete" /\ available = 0
    /\ Len(out) > Capacity

(***************************************************************************)
(* The one-shot decoder, src/algorithms/deflate.rs.  `output` is the Vec   *)
(* it appends to.  Its fixed_huffman_codes and dynamic_huffman_codes have  *)
(* the text of those of io/deflate/mod.rs, whose operators stand for them. *)
(***************************************************************************)
inflate_read_length_distance_pair(code, dist_tree, br, output) ==
    LET Fail(err, b) == [err |-> err, br |-> b, output |-> output]
        extra(b, n) == IF n # 0 THEN read_bits_32(b, n) ELSE [err |-> NoErr, br |-> b, val |-> 0]
        \* for _ in 0..len { output.push(output[from_index]); from_index += 1; }
        RECURSIVE push(_, _, _, _)
        push(o, from_index, len, b) ==
            IF len = 0 THEN [err |-> NoErr, br |-> b, output |-> o]
            ELSE IF from_index >= Len(o) THEN [err |-> "Panic", br |-> b, output |-> o]
            ELSE push(Append(o, o[from_index + 1]), from_index + 1, len - 1, b)
        copy(len, dist_base, r) ==
            IF r.err # NoErr THEN Fail(r.err, r.br)
            ELSE IF dist_base + r.val > Len(output) THEN Fail("Panic", r.br)
            ELSE push(output, Len(output) - (dist_base + r.val), len, r.br)
        distance(len, r) ==
            IF r.err # NoErr THEN Fail(r.err, r.br)
            ELSE IF r.val >= 32 THEN Fail("Panic", r.br)
            ELSE copy(len, DIST_BASE[r.val + 1], extra(r.br, DIST_EXTRA[r.val + 1]))
        length(r) ==
            IF r.err # NoErr THEN Fail(r.err, r.br)
            ELSE distance(LENGTH_BASE[code + 1] + r.val, read_value(dist_tree, r.br))
    IN  length(extra(br, LENGTH_EXTRA[code + 1]))

\* the loop of read_huffman_compressed_block
RECURSIVE read_huffman_symbols(_, _, _)
read_huffman_symbols(trees, br, output) ==
    LET pair(p) ==
            IF p.err # NoErr THEN p ELSE read_huffman_symbols(trees, p.br, p.output)
        symbol(r) ==
            IF r.err # NoErr THEN [err |-> r.err, br |-> r.br, output |-> output]
            ELSE IF r.val <= 255 THEN read_huffman_symbols(trees, r.br, Append(output, r.val))
            ELSE IF r.val = 256 THEN [err |-> NoErr, br |-> r.br, output |-> output]
            ELSE IF r.val <= 285
            THEN pair(inflate_read_length_distance_pair(r.val - 257, trees.distance_tree.node,
                                                        r.br, output))
            ELSE [err |-> "InvalidLitLenCode", br |-> r.br, output |-> output]
    IN  symbol(read_value(trees.litlen_tree.node, br))

read_huffman_compressed_block(tables, br, output) ==
    LET decode(trees) ==
            IF ~trees.litlen_tree.ok \/ ~trees.distance_tree.ok
            THEN [err |-> "BadHuffmanCodes", br |-> br, output |-> output]
            ELSE read_huffman_symbols(trees, br, output)
    IN  decode(tree_of(tables))

read_uncompressed_block(br, output) ==
    LET Fail(err, b) == [err |-> err, br |-> b, output |-> output]
        body(r) ==
            IF r.err # NoErr THEN Fail(r.err, r.br)
            ELSE [err |-> NoErr, br |-> r.br, output |-> output \o r.val]
        nlen(len, r) ==
            IF r.err # NoErr THEN Fail(r.err, r.br)
            ELSE IF len # 65535 - r.val THEN Fail("NonMatchingLenNLen", r.br)
            ELSE body(read_exact(r.br, len))
        len(r) ==
            IF r.err # NoErr THEN Fail(r.err, r.br)
            ELSE nlen(r.val, read_u16_le(r.br))
    IN  len(read_u16_le(flush_byte(br)))

RECURSIVE inflate(_, _)
inflate(br, output) ==
    LET Fail(err, b) == [err |-> err, br |-> b, output |-> output]
        block(bfinal, r) ==
            IF r.err # NoErr \/ bfinal THEN r ELSE inflate(r.br, r.output)
        dynamic(bfinal, c) ==
            IF c.err # NoErr THEN Fail(c.err, c.br)
            ELSE block(bfinal,
                       read_huffman_compressed_block(
                           [kind |-> "dynamic", litlen |-> c.codes.litlen,
                            distance |-> c.codes.distance], c.br, output))
        btype(bfinal, r) ==
            IF r.err # NoErr THEN Fail(r.err, r.br)
            ELSE IF r.val = 0 THEN block(bfinal, read_uncompressed_block(r.br, output))
            ELSE IF r.val = 1
            THEN block(bfinal, read_huffman_compressed_block([kind |-> "fixed"], r.br, output))
            ELSE IF r.val = 2 THEN dynamic(bfinal, dynamic_huffman_codes(r.br))
            ELSE Fail("InvalidBType", r.br)
        header(r) ==
            IF r.err # NoErr THEN Fail(r.err, r.br)
            ELSE btype(r.val # 0, read_bits_32(r.br, 2))
    IN  header(read_bit(br))

\* C40: when inflate succeeds on the source, a caller that reads the decoder
\* until read returns 0, with buffers of any sizes, has met no error and has been
\* given exactly the bytes inflate appends to its output.
AgreesWithInflate ==
    LET agrees(r) == r.err = NoErr => (~failed /\ out = r.output)
    IN  (~direct /\ EndOfStream) => agrees(inflate(BitReaderLSB_new, <<>>))

====
